---- MODULE Spec2Model ----
(***************************************************************************)
(* Authorization and provenance core of the task-management backend:      *)
(* manager hierarchy, role registry, permission resolver, access          *)
(* decision, audit trail and trash (soft delete / restore / purge).       *)
(*                                                                         *)
(* The database is the state: the users, tasks, roles, user_roles and     *)
(* audit_logs tables.  One action per request handler.  In Spec, SpecRbac, *)
(* SpecAllow, SpecTrip, SpecAudit, SpecList, SpecRefs and SpecAuth every   *)
(* handler runs as one step (requests serialized).  In SpecConc and        *)
(* SpecCreate two requests run at once and a handler is split at the       *)
(* points where it awaits the database between its reads and its commits;  *)
(* SpecLife runs the split handlers of one client, one request after       *)
(* another.  SpecWalk runs the hierarchy traversals one pass of their loop *)
(* per step, on every manager graph; SpecWalkFair adds the fairness under  *)
(* which they return.                                                      *)
(***************************************************************************)
EXTENDS Integers, Sequences, FiniteSets, TLC

VARIABLES
    users,       \* users table: id -> [manager_id, deleted_at, updated_at, is_active, is_admin]
    tasks,       \* tasks table: id -> [user_id, deleted_at, updated_at]
    roles,       \* roles table: id -> [component, name, permissions]
    user_roles,  \* user_roles table: set of <<user_id, role_id>>
    audit_logs,  \* audit_logs table, in insertion order
    now,         \* the clock that stamps deleted_at and updated_at
    last,        \* the response of the most recent request
    req          \* the requests in flight, slot -> local state of the handler

vars == <<users, tasks, roles, user_roles, audit_logs, now, last, req>>

db == <<users, tasks, roles, user_roles, audit_logs, now>>

----------------------------------------------------------------------------
(* Bounds of the model *)

MaxUsers == 3

MaxTasks == 1

MaxAudit == 2

(* SQL NULL / Python None for ids and timestamps; ids start at 1 *)
NULL == 0

UserIds == 1..MaxUsers

TaskIds == 1..MaxTasks

(* request inputs: every id that may be stored, and one that never is *)
NoSuchId == MaxUsers + MaxTasks + 1

UserIdInputs == UserIds \cup {NoSuchId}

TaskIdInputs == TaskIds \cup {NoSuchId}

ItemTypes == {"user", "task", "role"}

----------------------------------------------------------------------------
(* Helpers *)

SeqToSet(s) == {s[i] : i \in 1..Len(s)}

Min(S) == CHOOSE x \in S : \A y \in S : x <= y

RECURSIVE SortedSeq(_)
SortedSeq(S) == IF S = {} THEN <<>> ELSE <<Min(S)>> \o SortedSeq(S \ {Min(S)})

(* the rows of a table left after deleting the rows with the ids in gone *)
Without(table, gone) == [i \in (DOMAIN table) \ gone |-> table[i]]

(* id is INTEGER PRIMARY KEY without AUTOINCREMENT: SQLite gives a new     *)
(* row of a table the largest rowid in the table plus one                  *)
next_rowid(table) ==
    IF DOMAIN table = {} THEN 1
    ELSE 1 + CHOOSE m \in DOMAIN table : \A i \in DOMAIN table : i <= m

----------------------------------------------------------------------------
(* Audit trail *)

(* record_id, old_values, new_values and description are tuples; the empty *)
(* tuple is None.  description holds the words of the message and the      *)
(* values the code interpolates.                                           *)
AuditLog(action, table_name, record_id, user_id, old_values, new_values, description) ==
    [action |-> action, table_name |-> table_name, record_id |-> record_id,
     user_id |-> user_id, old_values |-> old_values, new_values |-> new_values,
     description |-> description]

(* a plausible slip: one entry per record, the newest entry of a record    *)
(* replaces the one before it                                              *)
create_audit_log_upsert(logs, entry) ==
    IF /\ logs # <<>>
       /\ logs[Len(logs)].table_name = entry.table_name
       /\ logs[Len(logs)].record_id = entry.record_id
    THEN [logs EXCEPT ![Len(logs)] = entry]
    ELSE Append(logs, entry)

create_audit_log(logs, entry) == Append(logs, entry)

AuditRoom == Len(audit_logs) < MaxAudit

(* the response of a request: the handler, the status or return value, and *)
(* the body (a tuple, empty when there is none)                            *)
Response(op, result, value) == [op |-> op, result |-> result, value |-> value]

Respond(op, result) == last' = Response(op, result, <<>>)

----------------------------------------------------------------------------
(* Authentication dependencies *)

(* a plausible slip: the lookup has no deleted_at filter *)
get_current_user_with_deleted(actor) ==
    actor \in DOMAIN users

get_current_user(actor) ==
    actor \in DOMAIN users /\ users[actor].deleted_at = NULL

get_current_active_user(actor) ==
    get_current_user(actor) /\ users[actor].is_active

get_current_admin_user(actor) ==
    get_current_active_user(actor) /\ users[actor].is_admin

----------------------------------------------------------------------------
(* Hierarchy Store *)

(* SELECT id FROM users WHERE manager_id = current_id *)
direct_subordinates(us, current_id) ==
    SortedSeq({i \in DOMAIN us : us[i].manager_id = current_id})

RECURSIVE subordinates_loop(_, _, _, _)
subordinates_loop(us, ids, to_process, visited) ==
    IF to_process = <<>> THEN ids
    ELSE LET current_id == Head(to_process)
             rest == Tail(to_process)
         IN  IF current_id \in visited
             THEN subordinates_loop(us, ids, rest, visited)
             ELSE LET direct == direct_subordinates(us, current_id)
                  IN  subordinates_loop(us, ids \o direct, rest \o direct,
                                        visited \cup {current_id})

(* a plausible slip: only the direct reports, the queue is never extended *)
get_all_subordinate_ids_direct_only(us, manager_id, include_self) ==
    (IF include_self THEN <<manager_id>> ELSE <<>>) \o direct_subordinates(us, manager_id)

get_all_subordinate_ids(us, manager_id, include_self) ==
    subordinates_loop(us, IF include_self THEN <<manager_id>> ELSE <<>>,
                      <<manager_id>>, {})

(* SELECT manager_id FROM users WHERE id = current_id; None when no row *)
manager_of(us, current_id) ==
    IF current_id \in DOMAIN us THEN us[current_id].manager_id ELSE NULL

RECURSIVE hierarchy_walk(_, _, _, _)
hierarchy_walk(us, manager_id, current_id, visited) ==
    IF current_id = NULL THEN FALSE
    ELSE IF current_id \in visited THEN FALSE
    ELSE LET current_manager == manager_of(us, current_id)
         IN  IF current_manager = manager_id THEN TRUE
             ELSE hierarchy_walk(us, manager_id, current_manager,
                                 visited \cup {current_id})

is_in_hierarchy(us, manager_id, subordinate_id) ==
    IF manager_id = subordinate_id THEN TRUE
    ELSE hierarchy_walk(us, manager_id, subordinate_id, {})

----------------------------------------------------------------------------
(* What the ORM does when a session deletes users and tasks in one flush.  *)
(* User.subordinates and User.tasks have no delete cascade: the rows that  *)
(* stay are detached by setting their foreign key to NULL.  tasks.user_id  *)
(* is NOT NULL, so detaching a task makes the commit fail (IntegrityError) *)
(* and the whole transaction is rolled back.  User.roles cascades.         *)

flush_fails(ts, gone_users, gone_tasks) ==
    \E t \in (DOMAIN ts) \ gone_tasks : ts[t].user_id \in gone_users

(* a plausible slip: the purge removes the user's row and leaves the rows  *)
(* of its direct reports as they were                                      *)
users_after_delete_keep_manager(us, gone_users, t) ==
    [i \in (DOMAIN us) \ gone_users |-> us[i]]

users_after_delete(us, gone_users, t) ==
    [i \in (DOMAIN us) \ gone_users |->
        IF us[i].manager_id \in gone_users
        THEN [us[i] EXCEPT !.manager_id = NULL, !.updated_at = t]
        ELSE us[i]]

user_roles_after_delete(urs, gone_users) ==
    {p \in urs : p[1] \notin gone_users}

deleted_users(us) == {i \in DOMAIN us : us[i].deleted_at # NULL}

deleted_tasks(ts) == {i \in DOMAIN ts : ts[i].deleted_at # NULL}

----------------------------------------------------------------------------
(* Hierarchy mutation: PUT /admin/rbac/users/{user_id}/manager *)

(* a plausible slip: the candidate manager's subtree is searched for the   *)
(* subject, instead of the subject's subtree for the candidate manager     *)
circular_dependency_reversed(us, user_id, manager_id) ==
    user_id \in SeqToSet(get_all_subordinate_ids(us, manager_id, FALSE))

circular_dependency(us, user_id, manager_id) ==
    manager_id \in SeqToSet(get_all_subordinate_ids(us, user_id, TRUE))

(* a plausible slip: no test for manager_id == user_id, the cycle check  *)
(* is left to catch it                                                     *)
validate_manager_no_self_check(us, user_id, manager_id) ==
    IF user_id \notin DOMAIN us THEN "404 User not found"
    ELSE IF manager_id = NULL THEN "ok"
    ELSE IF manager_id \notin DOMAIN us THEN "404 Manager not found"
    ELSE IF circular_dependency(us, user_id, manager_id) THEN "400 circular dependency"
    ELSE "ok"

(* the validation of update_user_manager: "ok" or the error it raises *)
validate_manager(us, user_id, manager_id) ==
    IF user_id \notin DOMAIN us THEN "404 User not found"
    ELSE IF manager_id = NULL THEN "ok"
    ELSE IF manager_id = user_id THEN "400 own manager"
    ELSE IF manager_id \notin DOMAIN us THEN "404 Manager not found"
    ELSE IF circular_dependency(us, user_id, manager_id) THEN "400 circular dependency"
    ELSE "ok"

(* a plausible slip: the entry names the manager, not the user *)
manager_audit_of_manager(actor, user_id, old_manager_id, manager_id) ==
    AuditLog("update", "users", <<manager_id>>, actor,
             <<old_manager_id>>, <<manager_id>>, <<manager_id, user_id>>)

manager_audit(actor, user_id, old_manager_id, manager_id) ==
    AuditLog("update", "users", <<user_id>>, actor,
             <<old_manager_id>>, <<manager_id>>, <<manager_id, user_id>>)

update_user_manager(actor, user_id, manager_id) ==
    /\ get_current_admin_user(actor)
    /\ LET verdict == validate_manager(users, user_id, manager_id)
       IN  IF verdict # "ok"
           THEN /\ Respond("update_user_manager", verdict)
                /\ UNCHANGED <<db, req>>
           ELSE LET old_manager_id == users[user_id].manager_id
                IN  /\ IF manager_id # old_manager_id
                       THEN /\ AuditRoom
                            /\ now' = now + 1
                            /\ users' = [users EXCEPT ![user_id].manager_id = manager_id,
                                                      ![user_id].updated_at = now + 1]
                            /\ audit_logs' = create_audit_log(audit_logs,
                                   manager_audit(actor, user_id, old_manager_id, manager_id))
                       ELSE UNCHANGED <<users, audit_logs, now>>
                    /\ Respond("update_user_manager", "204")
                    /\ UNCHANGED <<tasks, roles, user_roles, req>>

----------------------------------------------------------------------------
(* Soft delete *)

(* DELETE /admin/rbac/users/{user_id} *)
delete_user(actor, user_id) ==
    /\ get_current_admin_user(actor)
    /\ IF user_id = actor
       THEN /\ Respond("delete_user", "400 own account")
            /\ UNCHANGED <<db, req>>
       ELSE IF ~(user_id \in DOMAIN users /\ users[user_id].deleted_at = NULL)
       THEN /\ Respond("delete_user", "404 User not found")
            /\ UNCHANGED <<db, req>>
       ELSE /\ AuditRoom
            /\ now' = now + 1
            /\ users' = [users EXCEPT ![user_id].deleted_at = now + 1,
                                      ![user_id].updated_at = now + 1]
            /\ audit_logs' = create_audit_log(audit_logs,
                   AuditLog("delete", "users", <<user_id>>, actor, <<>>, <<>>,
                            <<"Deleted", "user", user_id>>))
            /\ Respond("delete_user", "204")
            /\ UNCHANGED <<tasks, roles, user_roles, req>>

(* the columns delete_task captures before the deletion *)
task_old_values == <<"title", "description", "status", "priority">>

(* PUT /tasks/{task_id}: the caller's own live task; the columns the body  *)
(* gives are set (the UPDATE stamps updated_at), the old values go into    *)
(* the audit entry, which is written after the commit                      *)
update_task(actor, task_id) ==
    /\ get_current_active_user(actor)
    /\ IF ~(/\ task_id \in DOMAIN tasks
            /\ tasks[task_id].user_id = actor
            /\ tasks[task_id].deleted_at = NULL)
       THEN /\ Respond("update_task", "404 Task not found")
            /\ UNCHANGED <<db, req>>
       ELSE /\ AuditRoom
            /\ now' = now + 1
            /\ tasks' = [tasks EXCEPT ![task_id].updated_at = now + 1]
            /\ audit_logs' = create_audit_log(audit_logs,
                   AuditLog("update", "tasks", <<task_id>>, actor,
                            task_old_values, <<tasks[task_id].user_id>>,
                            <<"Updated", "task", task_id>>))
            /\ Respond("update_task", "200")
            /\ UNCHANGED <<users, roles, user_roles, req>>

(* DELETE /tasks/{task_id}: the audit entry is committed first, then the   *)
(* tombstone                                                               *)
delete_task(actor, task_id) ==
    /\ get_current_active_user(actor)
    /\ IF ~(/\ task_id \in DOMAIN tasks
            /\ tasks[task_id].user_id = actor
            /\ tasks[task_id].deleted_at = NULL)
       THEN /\ Respond("delete_task", "404 Task not found")
            /\ UNCHANGED <<db, req>>
       ELSE /\ AuditRoom
            /\ audit_logs' = create_audit_log(audit_logs,
                   AuditLog("delete", "tasks", <<task_id>>, actor,
                            task_old_values, <<>>,
                            <<"Deleted", "task", task_id>>))
            /\ now' = now + 1
            /\ tasks' = [tasks EXCEPT ![task_id].deleted_at = now + 1,
                                      ![task_id].updated_at = now + 1]
            /\ Respond("delete_task", "204")
            /\ UNCHANGED <<users, roles, user_roles, req>>

----------------------------------------------------------------------------
(* Trash service *)

(* SELECT ... WHERE id = item_id AND deleted_at IS NOT NULL *)
in_trash(us, ts, item_type, item_id) ==
    \/ item_type = "user" /\ item_id \in deleted_users(us)
    \/ item_type = "task" /\ item_id \in deleted_tasks(ts)

table_of(item_type) == IF item_type = "user" THEN "users" ELSE "tasks"

(* a plausible slip: the deleted_at filter is left out of the lookup *)
restore_lookup_any(us, ts, item_type, item_id) ==
    \/ item_type = "user" /\ item_id \in DOMAIN us
    \/ item_type = "task" /\ item_id \in DOMAIN ts

restore_lookup(us, ts, item_type, item_id) == in_trash(us, ts, item_type, item_id)

(* POST /trash/restore/{item_type}/{item_id} *)
restore_item(actor, item_type, item_id) ==
    /\ get_current_admin_user(actor)
    /\ IF ~restore_lookup(users, tasks, item_type, item_id)
       THEN /\ Respond("restore_item", "False")
            /\ UNCHANGED <<db, req>>
       ELSE /\ AuditRoom
            /\ now' = now + 1
            /\ IF item_type = "user"
               THEN /\ users' = [users EXCEPT ![item_id].deleted_at = NULL,
                                              ![item_id].updated_at = now + 1]
                    /\ UNCHANGED tasks
               ELSE /\ tasks' = [tasks EXCEPT ![item_id].deleted_at = NULL,
                                              ![item_id].updated_at = now + 1]
                    /\ UNCHANGED users
            /\ audit_logs' = create_audit_log(audit_logs,
                   AuditLog("update", table_of(item_type), <<item_id>>, actor,
                            <<>>, <<>>, <<"Restored", item_type, "from trash", item_id>>))
            /\ Respond("restore_item", "True")
            /\ UNCHANGED <<roles, user_roles, req>>

(* DELETE /trash/{item_type}/{item_id} *)
permanently_delete(actor, item_type, item_id) ==
    /\ get_current_admin_user(actor)
    /\ IF ~in_trash(users, tasks, item_type, item_id)
       THEN /\ Respond("permanently_delete", "False")
            /\ UNCHANGED <<db, req>>
       ELSE IF item_type = "user" /\ flush_fails(tasks, {item_id}, {})
       THEN /\ Respond("permanently_delete", "IntegrityError")
            /\ UNCHANGED <<db, req>>
       ELSE /\ AuditRoom
            /\ IF item_type = "user"
               THEN /\ users' = users_after_delete(users, {item_id}, now + 1)
                    /\ user_roles' = user_roles_after_delete(user_roles, {item_id})
                    /\ UNCHANGED tasks
               ELSE /\ tasks' = Without(tasks, {item_id})
                    /\ UNCHANGED <<users, user_roles>>
            /\ audit_logs' = create_audit_log(audit_logs,
                   AuditLog("delete", table_of(item_type), <<item_id>>, actor, <<>>, <<>>,
                            <<"Permanently deleted", item_type, "from trash", item_id>>))
            /\ now' = now + 1
            /\ Respond("permanently_delete", "True")
            /\ UNCHANGED <<roles, req>>

(* DELETE /trash/; the response holds the counts <<users, tasks>> *)
empty_trash(actor) ==
    /\ get_current_admin_user(actor)
    /\ LET gone_users == deleted_users(users)
           gone_tasks == deleted_tasks(tasks)
       IN  IF flush_fails(tasks, gone_users, gone_tasks)
           THEN /\ Respond("empty_trash", "IntegrityError")
                /\ UNCHANGED <<db, req>>
           ELSE /\ AuditRoom
                /\ now' = now + 1
                /\ users' = users_after_delete(users, gone_users, now + 1)
                /\ user_roles' = user_roles_after_delete(user_roles, gone_users)
                /\ tasks' = Without(tasks, gone_tasks)
                /\ audit_logs' = create_audit_log(audit_logs,
                       AuditLog("delete", "trash", <<>>, actor, <<>>, <<>>,
                                <<"Emptied trash", Cardinality(gone_users),
                                  Cardinality(gone_tasks)>>))
                /\ last' = Response("empty_trash", "True",
                                     <<Cardinality(gone_users), Cardinality(gone_tasks)>>)
                /\ UNCHANGED <<roles, req>>

----------------------------------------------------------------------------
(* Role Registry and Permission Resolver *)

NONE == "None"

Actions == {"create", "read", "update", "delete"}

(* the order in which the keys of a permissions dict are visited *)
ActionOrder == <<"create", "read", "update", "delete">>

Components == {"tasks", "users"}

Role(component, name, permissions) ==
    [component |-> component, name |-> name, permissions |-> permissions]

(* SCOPE_PRIORITY.get(scope, 0) *)
SCOPE_PRIORITY(scope) ==
    CASE scope = "own" -> 1
      [] scope = "subordinates" -> 2
      [] scope = "all" -> 3
      [] OTHER -> 0

(* the ids of the roles joined to the user; an empty component is falsy    *)
(* and adds no filter                                                      *)
get_user_roles(rs, urs, user_id, component) ==
    {r \in DOMAIN rs :
        /\ <<user_id, r>> \in urs
        /\ (component # "" => rs[r].component = component)}

(* a plausible slip: the last role visited wins, whatever its scope *)
merge_scope_last_wins(current, scope) == scope

(* a plausible slip: the comparison is inverted and the narrowest non-empty *)
(* scope is kept                                                           *)
merge_scope_narrowest(current, scope) ==
    IF current = NONE \/ SCOPE_PRIORITY(scope) < SCOPE_PRIORITY(current)
    THEN scope ELSE current

(* one visit of (action, scope) with scope not None: keep the broadest *)
merge_scope(current, scope) ==
    IF SCOPE_PRIORITY(scope) > SCOPE_PRIORITY(current) THEN scope ELSE current

(* for action, scope in role.permissions.items() *)
RECURSIVE role_items_loop(_, _, _)
role_items_loop(permissions, i, effective) ==
    IF i > Len(ActionOrder) THEN effective
    ELSE LET action == ActionOrder[i]
         IN  IF action \notin DOMAIN permissions \/ permissions[action] = NONE
             THEN role_items_loop(permissions, i + 1, effective)
             ELSE role_items_loop(permissions, i + 1,
                      [effective EXCEPT
                          ![action] = merge_scope(effective[action], permissions[action])])

(* for role in roles *)
RECURSIVE roles_loop(_, _, _)
roles_loop(rs, role_seq, effective) ==
    IF role_seq = <<>> THEN effective
    ELSE roles_loop(rs, Tail(role_seq),
                    role_items_loop(rs[Head(role_seq)].permissions, 1, effective))

NoPermissions == [a \in Actions |-> NONE]

(* the resolved map when the query returns the roles in the order role_seq *)
effective_permissions(rs, role_seq) == roles_loop(rs, role_seq, NoPermissions)

(* the resolved map with the rows in primary-key order *)
get_user_permissions(rs, urs, user_id, component) ==
    effective_permissions(rs, SortedSeq(get_user_roles(rs, urs, user_id, component)))

(* every order in which a query without ORDER BY may return the rows *)
RowOrders(S) ==
    {q \in [1..Cardinality(S) -> S] : \A i, j \in 1..Cardinality(S) : i # j => q[i] # q[j]}

----------------------------------------------------------------------------
(* Access Decision Point *)

(* a plausible slip: the create shortcut is forgotten and create is        *)
(* checked against the owner like the other actions                        *)
own_scope_allows_no_shortcut(user_id, action, resource_owner_id) ==
    resource_owner_id = user_id

(* a plausible slip: a check without an owner passes as one on the user's  *)
(* own resource                                                            *)
own_scope_allows_missing_owner(user_id, action, resource_owner_id) ==
    IF action = "create" THEN TRUE ELSE resource_owner_id \in {NULL, user_id}

own_scope_allows(user_id, action, resource_owner_id) ==
    IF action = "create" THEN TRUE ELSE resource_owner_id = user_id

(* a plausible slip: the walk climbs from the acting user, so managers of  *)
(* the user are accepted instead of subordinates                           *)
subordinates_scope_allows_upward(us, user_id, action, resource_owner_id) ==
    IF action = "create" THEN TRUE
    ELSE IF resource_owner_id = NULL THEN FALSE
    ELSE IF resource_owner_id = user_id THEN TRUE
    ELSE is_in_hierarchy(us, resource_owner_id, user_id)

subordinates_scope_allows(us, user_id, action, resource_owner_id) ==
    IF action = "create" THEN TRUE
    ELSE IF resource_owner_id = NULL THEN FALSE
    ELSE IF resource_owner_id = user_id THEN TRUE
    ELSE is_in_hierarchy(us, user_id, resource_owner_id)

check_permission(us, rs, urs, user_id, component, action, resource_owner_id) ==
    LET permissions == get_user_permissions(rs, urs, user_id, component)
        scope == IF action \in DOMAIN permissions THEN permissions[action] ELSE NONE
    IN  IF scope = NONE THEN FALSE
        ELSE IF scope = "all" THEN TRUE
        ELSE IF scope = "own" THEN own_scope_allows(user_id, action, resource_owner_id)
        ELSE IF scope = "subordinates"
             THEN subordinates_scope_allows(us, user_id, action, resource_owner_id)
        ELSE FALSE

----------------------------------------------------------------------------
(* Role registry and role assignment: /admin/rbac *)

(* PUT /admin/rbac/roles/{role_id}; permissions is <<>> when the body      *)
(* gives none, <<map>> otherwise                                           *)
update_role(actor, role_id, permissions) ==
    /\ get_current_admin_user(actor)
    /\ IF role_id \notin DOMAIN roles
       THEN /\ Respond("update_role", "404 Role not found")
            /\ UNCHANGED <<db, req>>
       ELSE LET new_permissions == IF permissions = <<>>
                                   THEN roles[role_id].permissions
                                   ELSE permissions[1]
            IN  /\ AuditRoom
                /\ roles' = [roles EXCEPT ![role_id].permissions = new_permissions]
                /\ audit_logs' = create_audit_log(audit_logs,
                       AuditLog("update", "roles", <<role_id>>, actor,
                                <<roles[role_id].permissions>>, <<new_permissions>>,
                                <<role_id>>))
                /\ Respond("update_role", "200")
                /\ UNCHANGED <<users, tasks, user_roles, now, req>>

(* POST /admin/rbac/users/{user_id}/roles *)
assign_role_to_user(actor, user_id, role_id) ==
    /\ get_current_admin_user(actor)
    /\ IF user_id \notin DOMAIN users
       THEN /\ Respond("assign_role_to_user", "404 User not found")
            /\ UNCHANGED <<db, req>>
       ELSE IF role_id \notin DOMAIN roles
       THEN /\ Respond("assign_role_to_user", "404 Role not found")
            /\ UNCHANGED <<db, req>>
       ELSE IF <<user_id, role_id>> \in user_roles
       THEN /\ Respond("assign_role_to_user", "400 already assigned")
            /\ UNCHANGED <<db, req>>
       ELSE /\ AuditRoom
            /\ user_roles' = user_roles \cup {<<user_id, role_id>>}
            /\ audit_logs' = create_audit_log(audit_logs,
                   AuditLog("create", "user_roles", <<user_id, role_id>>, actor,
                            <<>>, <<>>, <<role_id, user_id>>))
            /\ Respond("assign_role_to_user", "204")
            /\ UNCHANGED <<users, tasks, roles, now, req>>

(* DELETE /admin/rbac/users/{user_id}/roles/{role_id} *)
remove_role_from_user(actor, user_id, role_id) ==
    /\ get_current_admin_user(actor)
    /\ IF user_id \notin DOMAIN users
       THEN /\ Respond("remove_role_from_user", "404 User not found")
            /\ UNCHANGED <<db, req>>
       ELSE IF role_id \notin DOMAIN roles
       THEN /\ Respond("remove_role_from_user", "404 Role not found")
            /\ UNCHANGED <<db, req>>
       ELSE IF <<user_id, role_id>> \notin user_roles
       THEN /\ Respond("remove_role_from_user", "404 Role assignment not found")
            /\ UNCHANGED <<db, req>>
       ELSE /\ AuditRoom
            /\ user_roles' = user_roles \ {<<user_id, role_id>>}
            /\ audit_logs' = create_audit_log(audit_logs,
                   AuditLog("delete", "user_roles", <<user_id, role_id>>, actor,
                            <<>>, <<>>, <<role_id, user_id>>))
            /\ Respond("remove_role_from_user", "204")
            /\ UNCHANGED <<users, tasks, roles, now, req>>

(* POST /admin/rbac/roles *)
create_role(actor, component, name, permissions) ==
    /\ get_current_admin_user(actor)
    /\ IF \E r \in DOMAIN roles : roles[r].component = component /\ roles[r].name = name
       THEN /\ Respond("create_role", "400 already exists")
            /\ UNCHANGED <<db, req>>
       ELSE LET id == next_rowid(roles)
            IN  /\ AuditRoom
                /\ roles' = [r \in DOMAIN roles \cup {id} |->
                                IF r = id THEN Role(component, name, permissions)
                                ELSE roles[r]]
                /\ audit_logs' = create_audit_log(audit_logs,
                       AuditLog("create", "roles", <<id>>, actor, <<>>, <<>>,
                                <<"Created role", component, name>>))
                /\ Respond("create_role", "201")
                /\ UNCHANGED <<users, tasks, user_roles, now, req>>

(* DELETE /admin/rbac/roles/{role_id}; Role.user_roles cascades: the       *)
(* assignments of the role go with it                                      *)
delete_role(actor, role_id) ==
    /\ get_current_admin_user(actor)
    /\ IF role_id \notin DOMAIN roles
       THEN /\ Respond("delete_role", "404 Role not found")
            /\ UNCHANGED <<db, req>>
       ELSE /\ AuditRoom
            /\ roles' = Without(roles, {role_id})
            /\ user_roles' = {p \in user_roles : p[2] # role_id}
            /\ audit_logs' = create_audit_log(audit_logs,
                   AuditLog("delete", "roles", <<role_id>>, actor, <<>>, <<>>,
                            <<"Deleted role", roles[role_id].component,
                              roles[role_id].name>>))
            /\ Respond("delete_role", "204")
            /\ UNCHANGED <<users, tasks, now, req>>

(* GET /admin/rbac/permissions/{component}: the caller's resolved map; the *)
(* query has no ORDER BY, so the roles arrive in some order                *)
get_user_permissions_endpoint(actor, component) ==
    /\ get_current_active_user(actor)
    /\ \E role_seq \in RowOrders(get_user_roles(roles, user_roles, actor, component)) :
          last' = Response("get_user_permissions", "200",
                           <<actor, component, effective_permissions(roles, role_seq)>>)
    /\ UNCHANGED <<db, req>>

----------------------------------------------------------------------------
(* Permission checks as requests: the dependency require_permission and    *)
(* the helper check_resource_permission, applied to a pending request.     *)

CheckRequest(user_id, component, action, resource_owner_id) ==
    [op |-> "check_permission", pc |-> "new", user_id |-> user_id,
     component |-> component, action |-> action,
     resource_owner_id |-> resource_owner_id]

check_resource_permission(r) ==
    /\ req[r].pc = "new"
    /\ req[r].resource_owner_id # NULL
    /\ last' = Response("check_resource_permission",
                  IF check_permission(users, roles, user_roles, req[r].user_id,
                         req[r].component, req[r].action, req[r].resource_owner_id)
                  THEN "True" ELSE "False", <<>>)
    /\ req' = [req EXCEPT ![r].pc = "done"]
    /\ UNCHANGED db

(* require_permission(component, action): a general check, no owner *)
permission_checker(r) ==
    /\ req[r].pc = "new"
    /\ req[r].resource_owner_id = NULL
    /\ get_current_active_user(req[r].user_id)
    /\ last' = Response("permission_checker",
                  IF check_permission(users, roles, user_roles, req[r].user_id,
                         req[r].component, req[r].action, NULL)
                  THEN "200" ELSE "403", <<>>)
    /\ req' = [req EXCEPT ![r].pc = "done"]
    /\ UNCHANGED db

----------------------------------------------------------------------------
(* The database after init_db and seed_roles, with MaxUsers registered     *)
(* users (user 1 is the first admin) and MaxTasks tasks.                   *)

(* updated_at: TimestampMixin, onupdate = utcnow; set by every UPDATE of    *)
(* the row, so a row that holds a tombstone was last updated no earlier    *)
(* than the tombstone was set.                                             *)
User(manager_id, deleted_at, is_active, is_admin) ==
    [manager_id |-> manager_id, deleted_at |-> deleted_at, updated_at |-> deleted_at,
     is_active |-> is_active, is_admin |-> is_admin]

Task(user_id, deleted_at) ==
    [user_id |-> user_id, deleted_at |-> deleted_at, updated_at |-> deleted_at]

InitUsers == [i \in UserIds |-> User(NULL, NULL, TRUE, i = 1)]

(* the same users after user i was put under user i - 1, for every i > 1 *)
ChainUsers == [i \in UserIds |-> User(i - 1, NULL, TRUE, i = 1)]

InitTasks == [t \in TaskIds |-> Task((t % MaxUsers) + 1, NULL)]

(* the seeded roles of component "tasks" (DEFAULT_ROLES) and one role      *)
(* created for component "users"                                           *)
InitRoles ==
    <<Role("tasks", "User",
           [create |-> "own", read |-> "own", update |-> "own", delete |-> "own"]),
      Role("tasks", "Manager",
           [create |-> "own", read |-> "subordinates", update |-> "subordinates",
            delete |-> NONE]),
      Role("tasks", "Admin",
           [create |-> "all", read |-> "all", update |-> "all", delete |-> "all"]),
      Role("users", "Lead",
           [create |-> "subordinates", read |-> "subordinates"])>>

(* permission maps a role update may send *)
PermissionInputs ==
    {<<>>,
     <<[create |-> "subordinates", read |-> "own", update |-> NONE,
        delete |-> "subordinates"]>>}

NoRequests == <<>>

NoResponse == Response("none", "none", <<>>)

Init ==
    /\ users \in {InitUsers, ChainUsers}
    /\ tasks = InitTasks
    /\ roles = InitRoles
    /\ user_roles = {}
    /\ audit_logs = <<>>
    /\ now = 0
    /\ last = NoResponse
    /\ req = NoRequests

Next ==
    \/ \E a \in UserIds, u \in UserIdInputs, m \in UserIdInputs \cup {NULL} :
          update_user_manager(a, u, m)
    \/ \E a \in UserIds, u \in UserIdInputs : delete_user(a, u)
    \/ \E a \in UserIds, t \in TaskIdInputs : delete_task(a, t)
    \/ \E a \in UserIds, ty \in ItemTypes, i \in UserIdInputs \cup TaskIdInputs :
          restore_item(a, ty, i)
    \/ \E a \in UserIds, ty \in ItemTypes, i \in UserIdInputs \cup TaskIdInputs :
          permanently_delete(a, ty, i)
    \/ \E a \in UserIds : empty_trash(a)

Spec == Init /\ [][Next]_vars

----------------------------------------------------------------------------
(* The manager graph as a relation *)

StepUp(us, S) == {us[x].manager_id : x \in S \cap DOMAIN us} \ {NULL}

RECURSIVE AncestorsWithin(_, _, _)
AncestorsWithin(us, S, n) ==
    IF n = 0 THEN {}
    ELSE LET up == StepUp(us, S) IN up \cup AncestorsWithin(us, up, n - 1)

(* everyone reached from i by following manager_id one or more times *)
AncestorsOf(us, i) == AncestorsWithin(us, {i}, Cardinality(DOMAIN us) + 1)

DescendantsOf(us, m) == {i \in DOMAIN us : m \in AncestorsOf(us, i)}

Acyclic(us) == \A i \in DOMAIN us : i \notin AncestorsOf(us, i)

ManagerGraphs ==
    {g \in [UserIds -> UserIds \cup {NULL}] :
        Acyclic([i \in UserIds |-> User(g[i], NULL, TRUE, i = 1)])}

----------------------------------------------------------------------------
(* Role registry, assignments and the resolver, requests serialized *)

InitRbac ==
    /\ users = InitUsers
    /\ tasks = InitTasks
    /\ roles = InitRoles
    /\ user_roles = {}
    /\ audit_logs = <<>>
    /\ now = 0
    /\ last = NoResponse
    /\ req = NoRequests

NextRbac ==
    \/ \E a \in UserIds, r \in DOMAIN InitRoles \cup {NoSuchId}, p \in PermissionInputs :
          update_role(a, r, p)
    \/ \E a \in UserIds, u \in UserIdInputs, r \in DOMAIN InitRoles \cup {NoSuchId} :
          assign_role_to_user(a, u, r)
    \/ \E a \in UserIds, u \in UserIdInputs, r \in DOMAIN InitRoles \cup {NoSuchId} :
          remove_role_from_user(a, u, r)
    \/ \E a \in UserIds, c \in Components : get_user_permissions_endpoint(a, c)

SpecRbac == InitRbac /\ [][NextRbac]_vars

----------------------------------------------------------------------------
(* One permission check against a database with any acyclic manager graph  *)
(* and any set of roles held by the checked user                           *)

InitAllow ==
    /\ \E g \in ManagerGraphs : users = [i \in UserIds |-> User(g[i], NULL, TRUE, i = 1)]
    /\ tasks = InitTasks
    /\ roles = InitRoles
    /\ audit_logs = <<>>
    /\ now = 0
    /\ last = NoResponse
    /\ \E u \in UserIds, c \in Components, a \in Actions,
          o \in UserIdInputs \cup {NULL}, held \in SUBSET (DOMAIN InitRoles) :
          /\ req = <<CheckRequest(u, c, a, o)>>
          /\ user_roles = {<<u, r>> : r \in held}

NextAllow ==
    \/ \E r \in DOMAIN req : check_resource_permission(r)
    \/ \E r \in DOMAIN req : permission_checker(r)

SpecAllow == InitAllow /\ [][NextAllow]_vars

----------------------------------------------------------------------------
(* Two requests in flight.  Every request has its own database session and *)
(* the handlers give up control at each await, so the statements of two    *)
(* requests interleave.  SQLite takes its write lock at the first UPDATE,  *)
(* INSERT or DELETE of a transaction, never at a SELECT: nothing is held   *)
(* between a handler's reads and its commit.  A handler is cut into its    *)
(* reads, its commit and its audit entry (a commit of its own); the reads  *)
(* of one handler are taken together, which leaves out interleavings but   *)
(* adds none.                                                              *)

ManagerRequest(actor, user_id, manager_id) ==
    [op |-> "update_user_manager", pc |-> "new", actor |-> actor,
     user_id |-> user_id, manager_id |-> manager_id,
     old_manager_id |-> NULL, result |-> ""]

(* loaded: the ids of the rows the session holds after its SELECT.  The   *)
(* relationships of User are lazy="selectin": the SELECT of a user also    *)
(* loads the user's subordinates and tasks.                                *)
(* <<users, tasks, subordinates of the users, tasks of the users>>          *)
TrashRequest(op, actor, item_type, item_id) ==
    [op |-> op, pc |-> "new", actor |-> actor,
     item_type |-> item_type, item_id |-> item_id,
     loaded |-> <<>>, result |-> ""]

Loaded(us, ts, gone_users, gone_tasks) ==
    <<gone_users, gone_tasks,
      {i \in DOMAIN us : us[i].manager_id \in gone_users},
      {t \in DOMAIN ts : ts[t].user_id \in gone_users}>>

(* the flush of a session that deletes the loaded rows: "ok" or the error  *)
(* that rolls the transaction back.  A loaded task that is not deleted     *)
(* with its user is detached (user_id = NULL, refused by NOT NULL); a      *)
(* loaded subordinate is detached by an UPDATE, which raises if the row is *)
(* gone.                                                                   *)
flush_verdict(us, ts, loaded) ==
    IF (loaded[4] \ loaded[2]) \cap DOMAIN ts # {} THEN "IntegrityError"
    ELSE IF loaded[4] \ loaded[2] # {} THEN "StaleDataError"
    ELSE IF (loaded[3] \ loaded[1]) \ DOMAIN us # {} THEN "StaleDataError"
    ELSE "ok"

users_after_flush(us, loaded, t) ==
    [i \in (DOMAIN us) \ loaded[1] |->
        IF i \in loaded[3]
        THEN [us[i] EXCEPT !.manager_id = NULL, !.updated_at = t]
        ELSE us[i]]

Starts(r, op) == req[r].pc = "new" /\ req[r].op = op

At(r, op, pc) == req[r].pc = pc /\ req[r].op = op

Finish(r, result) == req' = [req EXCEPT ![r].pc = "done", ![r].result = result]

Goto(r, pc) == req' = [req EXCEPT ![r].pc = pc]

(* the lookups and the cycle check of update_user_manager *)
update_user_manager_validate(r) ==
    /\ Starts(r, "update_user_manager")
    /\ get_current_admin_user(req[r].actor)
    /\ LET verdict == validate_manager(users, req[r].user_id, req[r].manager_id)
       IN  IF verdict # "ok"
           THEN Finish(r, verdict)
           ELSE req' = [req EXCEPT ![r].pc = "commit",
                                   ![r].old_manager_id = users[req[r].user_id].manager_id]
    /\ UNCHANGED <<db, last>>

(* user.manager_id = manager_id; commit.  No UPDATE is sent when the value *)
(* is the one that was loaded; an UPDATE of a row that is gone raises.     *)
update_user_manager_commit(r) ==
    /\ At(r, "update_user_manager", "commit")
    /\ IF req[r].manager_id = req[r].old_manager_id
       THEN /\ Finish(r, "204")
            /\ UNCHANGED <<users, now>>
       ELSE IF req[r].user_id \notin DOMAIN users
       THEN /\ Finish(r, "StaleDataError")
            /\ UNCHANGED <<users, now>>
       ELSE /\ now' = now + 1
            /\ users' = [users EXCEPT ![req[r].user_id].manager_id = req[r].manager_id,
                                      ![req[r].user_id].updated_at = now + 1]
            /\ Goto(r, "audit")
    /\ UNCHANGED <<tasks, roles, user_roles, audit_logs, last>>

update_user_manager_audit(r) ==
    /\ At(r, "update_user_manager", "audit")
    /\ audit_logs' = create_audit_log(audit_logs,
           manager_audit(req[r].actor, req[r].user_id,
                         req[r].old_manager_id, req[r].manager_id))
    /\ Finish(r, "204")
    /\ UNCHANGED <<users, tasks, roles, user_roles, now, last>>

restore_item_select(r) ==
    /\ Starts(r, "restore_item")
    /\ get_current_admin_user(req[r].actor)
    /\ IF ~restore_lookup(users, tasks, req[r].item_type, req[r].item_id)
       THEN Finish(r, "False")
       ELSE Goto(r, "commit")
    /\ UNCHANGED <<db, last>>

(* item.restore(); commit: UPDATE ... SET deleted_at = NULL WHERE id = ... *)
restore_item_commit(r) ==
    /\ At(r, "restore_item", "commit")
    /\ LET item_id == req[r].item_id
       IN  IF req[r].item_type = "user"
           THEN /\ IF item_id \in DOMAIN users
                   THEN /\ users' = [users EXCEPT ![item_id].deleted_at = NULL,
                                                  ![item_id].updated_at = now + 1]
                        /\ now' = now + 1
                        /\ Goto(r, "audit")
                   ELSE /\ Finish(r, "StaleDataError")
                        /\ UNCHANGED <<users, now>>
                /\ UNCHANGED tasks
           ELSE /\ IF item_id \in DOMAIN tasks
                   THEN /\ tasks' = [tasks EXCEPT ![item_id].deleted_at = NULL,
                                                  ![item_id].updated_at = now + 1]
                        /\ now' = now + 1
                        /\ Goto(r, "audit")
                   ELSE /\ Finish(r, "StaleDataError")
                        /\ UNCHANGED <<tasks, now>>
                /\ UNCHANGED users
    /\ UNCHANGED <<roles, user_roles, audit_logs, last>>

restore_item_audit(r) ==
    /\ At(r, "restore_item", "audit")
    /\ audit_logs' = create_audit_log(audit_logs,
           AuditLog("update", table_of(req[r].item_type), <<req[r].item_id>>,
                    req[r].actor, <<>>, <<>>,
                    <<"Restored", req[r].item_type, "from trash", req[r].item_id>>))
    /\ Finish(r, "True")
    /\ UNCHANGED <<users, tasks, roles, user_roles, now, last>>

permanently_delete_select(r) ==
    /\ Starts(r, "permanently_delete")
    /\ get_current_admin_user(req[r].actor)
    /\ IF ~in_trash(users, tasks, req[r].item_type, req[r].item_id)
       THEN Finish(r, "False")
       ELSE req' = [req EXCEPT
                       ![r].pc = "commit",
                       ![r].loaded =
                           IF req[r].item_type = "user"
                           THEN Loaded(users, tasks, {req[r].item_id}, {})
                           ELSE Loaded(users, tasks, {}, {req[r].item_id})]
    /\ UNCHANGED <<db, last>>

(* db.delete(item); commit: DELETE ... WHERE id = ...; a DELETE that       *)
(* matches no row only warns                                               *)
permanently_delete_commit(r) ==
    /\ At(r, "permanently_delete", "commit")
    /\ LET verdict == flush_verdict(users, tasks, req[r].loaded)
       IN  IF verdict # "ok"
           THEN /\ Finish(r, verdict)
                /\ UNCHANGED <<users, tasks, user_roles, now>>
           ELSE /\ now' = now + 1
                /\ users' = users_after_flush(users, req[r].loaded, now + 1)
                /\ user_roles' = user_roles_after_delete(user_roles, req[r].loaded[1])
                /\ tasks' = Without(tasks, req[r].loaded[2])
                /\ Goto(r, "audit")
    /\ UNCHANGED <<roles, audit_logs, last>>

permanently_delete_audit(r) ==
    /\ At(r, "permanently_delete", "audit")
    /\ audit_logs' = create_audit_log(audit_logs,
           AuditLog("delete", table_of(req[r].item_type), <<req[r].item_id>>,
                    req[r].actor, <<>>, <<>>,
                    <<"Permanently deleted", req[r].item_type, "from trash",
                      req[r].item_id>>))
    /\ Finish(r, "True")
    /\ UNCHANGED <<users, tasks, roles, user_roles, now, last>>

empty_trash_select(r) ==
    /\ Starts(r, "empty_trash")
    /\ get_current_admin_user(req[r].actor)
    /\ req' = [req EXCEPT ![r].pc = "commit",
                          ![r].loaded = Loaded(users, tasks, deleted_users(users),
                                               deleted_tasks(tasks))]
    /\ UNCHANGED <<db, last>>

empty_trash_commit(r) ==
    /\ At(r, "empty_trash", "commit")
    /\ LET verdict == flush_verdict(users, tasks, req[r].loaded)
       IN  IF verdict # "ok"
           THEN /\ Finish(r, verdict)
                /\ UNCHANGED <<users, tasks, user_roles, now>>
           ELSE /\ now' = now + 1
                /\ users' = users_after_flush(users, req[r].loaded, now + 1)
                /\ user_roles' = user_roles_after_delete(user_roles, req[r].loaded[1])
                /\ tasks' = Without(tasks, req[r].loaded[2])
                /\ Goto(r, "audit")
    /\ UNCHANGED <<roles, audit_logs, last>>

empty_trash_audit(r) ==
    /\ At(r, "empty_trash", "audit")
    /\ audit_logs' = create_audit_log(audit_logs,
           AuditLog("delete", "trash", <<>>, req[r].actor, <<>>, <<>>,
                    <<"Emptied trash", Cardinality(req[r].loaded[1]),
                      Cardinality(req[r].loaded[2])>>))
    /\ Finish(r, "True")
    /\ UNCHANGED <<users, tasks, roles, user_roles, now, last>>

(* the requests an administrator may send *)
ConcRequests ==
    LET admins == {i \in UserIds : InitUsers[i].is_admin}
        types == {"user", "task"}
        ids == UserIds \cup TaskIds
    IN  {ManagerRequest(a, u, m) : a \in admins, u \in UserIds, m \in UserIds \cup {NULL}}
        \cup {TrashRequest("restore_item", a, ty, i) : a \in admins, ty \in types, i \in ids}
        \cup {TrashRequest("permanently_delete", a, ty, i) :
                 a \in admins, ty \in types, i \in ids}
        \cup {TrashRequest("empty_trash", a, "", NULL) : a \in admins}

(* the database after the last user and every task were soft-deleted, the  *)
(* user by the administrator and each task by its owner; two requests      *)
(* arrive                                                                  *)
InitConc ==
    /\ users = [InitUsers EXCEPT ![MaxUsers].deleted_at = 1, ![MaxUsers].updated_at = 1]
    /\ tasks = [t \in TaskIds |-> Task(InitTasks[t].user_id, 1 + t)]
    /\ roles = InitRoles
    /\ user_roles = {}
    /\ audit_logs =
          [k \in 1..(1 + MaxTasks) |->
              IF k = 1
              THEN AuditLog("delete", "users", <<MaxUsers>>, 1, <<>>, <<>>,
                            <<"Deleted", "user", MaxUsers>>)
              ELSE AuditLog("delete", "tasks", <<k - 1>>, InitTasks[k - 1].user_id,
                            task_old_values, <<>>, <<"Deleted", "task", k - 1>>)]
    /\ now = 1 + MaxTasks
    /\ last = NoResponse
    /\ \E q1 \in ConcRequests, q2 \in ConcRequests : req = <<q1, q2>>

NextConc ==
    \/ \E r \in DOMAIN req : update_user_manager_validate(r)
    \/ \E r \in DOMAIN req : update_user_manager_commit(r)
    \/ \E r \in DOMAIN req : update_user_manager_audit(r)
    \/ \E r \in DOMAIN req : restore_item_select(r)
    \/ \E r \in DOMAIN req : restore_item_commit(r)
    \/ \E r \in DOMAIN req : restore_item_audit(r)
    \/ \E r \in DOMAIN req : permanently_delete_select(r)
    \/ \E r \in DOMAIN req : permanently_delete_commit(r)
    \/ \E r \in DOMAIN req : permanently_delete_audit(r)
    \/ \E r \in DOMAIN req : empty_trash_select(r)
    \/ \E r \in DOMAIN req : empty_trash_commit(r)
    \/ \E r \in DOMAIN req : empty_trash_audit(r)

SpecConc == InitConc /\ [][NextConc]_vars

----------------------------------------------------------------------------
(* One client, one request after another.  The handlers are cut at their   *)
(* commits as above, so the states between a handler's commits are states  *)
(* of the run.                                                             *)

MaxTime == 5

TaskRequest(op, actor, task_id) ==
    [op |-> op, pc |-> "new", actor |-> actor, task_id |-> task_id, result |-> ""]

UserRequest(op, actor, user_id) ==
    [op |-> op, pc |-> "new", actor |-> actor, user_id |-> user_id, result |-> ""]

(* POST /tasks/: db.add(task); commit; refresh *)
create_task_commit(r) ==
    /\ Starts(r, "create_task")
    /\ IF ~get_current_active_user(req[r].actor)
       THEN /\ Finish(r, "401")
            /\ UNCHANGED <<tasks, now>>
       ELSE LET id == next_rowid(tasks)
            IN  /\ now' = now + 1
                /\ tasks' = [t \in DOMAIN tasks \cup {id} |->
                                IF t = id
                                THEN [Task(req[r].actor, NULL) EXCEPT !.updated_at = now + 1]
                                ELSE tasks[t]]
                /\ req' = [req EXCEPT ![r].pc = "audit", ![r].task_id = id]
    /\ UNCHANGED <<users, roles, user_roles, audit_logs, last>>

(* log_model_change(CREATE, task) *)
create_task_audit(r) ==
    /\ At(r, "create_task", "audit")
    /\ audit_logs' = create_audit_log(audit_logs,
           AuditLog("create", "tasks", <<req[r].task_id>>, req[r].actor, <<>>,
                    <<req[r].actor>>, <<"Created", "task", req[r].task_id>>))
    /\ Finish(r, "201")
    /\ UNCHANGED <<users, tasks, roles, user_roles, now, last>>

(* DELETE /tasks/{task_id}: the SELECT of the caller's live task *)
delete_task_select(r) ==
    /\ Starts(r, "delete_task")
    /\ IF ~get_current_active_user(req[r].actor)
       THEN Finish(r, "401")
       ELSE IF ~(/\ req[r].task_id \in DOMAIN tasks
                 /\ tasks[req[r].task_id].user_id = req[r].actor
                 /\ tasks[req[r].task_id].deleted_at = NULL)
       THEN Finish(r, "404 Task not found")
       ELSE Goto(r, "audit")
    /\ UNCHANGED <<db, last>>

(* "Log before deletion": create_audit_log commits the entry *)
delete_task_audit(r) ==
    /\ At(r, "delete_task", "audit")
    /\ audit_logs' = create_audit_log(audit_logs,
           AuditLog("delete", "tasks", <<req[r].task_id>>, req[r].actor,
                    task_old_values, <<>>, <<"Deleted", "task", req[r].task_id>>))
    /\ Goto(r, "commit")
    /\ UNCHANGED <<users, tasks, roles, user_roles, now, last>>

(* task.soft_delete(); commit *)
delete_task_commit(r) ==
    /\ At(r, "delete_task", "commit")
    /\ IF req[r].task_id \in DOMAIN tasks
       THEN /\ now' = now + 1
            /\ tasks' = [tasks EXCEPT ![req[r].task_id].deleted_at = now + 1,
                                      ![req[r].task_id].updated_at = now + 1]
            /\ Finish(r, "204")
       ELSE /\ Finish(r, "StaleDataError")
            /\ UNCHANGED <<tasks, now>>
    /\ UNCHANGED <<users, roles, user_roles, audit_logs, last>>

(* DELETE /admin/rbac/users/{user_id}: the checks and the SELECT *)
delete_user_select(r) ==
    /\ Starts(r, "delete_user")
    /\ IF ~get_current_admin_user(req[r].actor)
       THEN Finish(r, "403")
       ELSE IF req[r].user_id = req[r].actor
       THEN Finish(r, "400 own account")
       ELSE IF ~(/\ req[r].user_id \in DOMAIN users
                 /\ users[req[r].user_id].deleted_at = NULL)
       THEN Finish(r, "404 User not found")
       ELSE Goto(r, "commit")
    /\ UNCHANGED <<db, last>>

(* user.deleted_at = now; commit *)
delete_user_commit(r) ==
    /\ At(r, "delete_user", "commit")
    /\ IF req[r].user_id \in DOMAIN users
       THEN /\ now' = now + 1
            /\ users' = [users EXCEPT ![req[r].user_id].deleted_at = now + 1,
                                      ![req[r].user_id].updated_at = now + 1]
            /\ Goto(r, "audit")
       ELSE /\ Finish(r, "StaleDataError")
            /\ UNCHANGED <<users, now>>
    /\ UNCHANGED <<tasks, roles, user_roles, audit_logs, last>>

(* "Audit user deletion": no old_values are passed *)
delete_user_audit(r) ==
    /\ At(r, "delete_user", "audit")
    /\ audit_logs' = create_audit_log(audit_logs,
           AuditLog("delete", "users", <<req[r].user_id>>, req[r].actor, <<>>, <<>>,
                    <<"Deleted", "user", req[r].user_id>>))
    /\ Finish(r, "204")
    /\ UNCHANGED <<users, tasks, roles, user_roles, now, last>>

(* the requests of the client: the task owners work on their tasks, the    *)
(* administrator deletes users and works on the trash                      *)
LifeRequests ==
    LET admins == {i \in UserIds : InitUsers[i].is_admin}
        owners == {InitTasks[t].user_id : t \in TaskIds}
        types == {"user", "task"}
        ids == UserIds \cup TaskIds
    IN  {TaskRequest("create_task", a, NULL) : a \in owners}
        \cup {TaskRequest("delete_task", a, t) : a \in owners, t \in TaskIds}
        \cup {UserRequest("delete_user", a, u) : a \in admins, u \in UserIds}
        \cup {TrashRequest("restore_item", a, ty, i) : a \in admins, ty \in types, i \in ids}
        \cup {TrashRequest("permanently_delete", a, ty, i) :
                 a \in admins, ty \in types, i \in ids}
        \cup {TrashRequest("empty_trash", a, "", NULL) : a \in admins}

(* the client sends its next request when the response to the last one has *)
(* arrived                                                                 *)
next_request(q) ==
    /\ \A r \in DOMAIN req : req[r].pc = "done"
    /\ now < MaxTime
    /\ req' = <<q>>
    /\ UNCHANGED <<db, last>>

InitLife ==
    /\ users = InitUsers
    /\ tasks = InitTasks
    /\ roles = InitRoles
    /\ user_roles = {}
    /\ audit_logs = <<>>
    /\ now = 0
    /\ last = NoResponse
    /\ \E q \in LifeRequests : req = <<q>>

NextLife ==
    \/ \E q \in LifeRequests : next_request(q)
    \/ \E r \in DOMAIN req : create_task_commit(r)
    \/ \E r \in DOMAIN req : create_task_audit(r)
    \/ \E r \in DOMAIN req : delete_task_select(r)
    \/ \E r \in DOMAIN req : delete_task_audit(r)
    \/ \E r \in DOMAIN req : delete_task_commit(r)
    \/ \E r \in DOMAIN req : delete_user_select(r)
    \/ \E r \in DOMAIN req : delete_user_commit(r)
    \/ \E r \in DOMAIN req : delete_user_audit(r)
    \/ \E r \in DOMAIN req : restore_item_select(r)
    \/ \E r \in DOMAIN req : restore_item_commit(r)
    \/ \E r \in DOMAIN req : restore_item_audit(r)
    \/ \E r \in DOMAIN req : permanently_delete_select(r)
    \/ \E r \in DOMAIN req : permanently_delete_commit(r)
    \/ \E r \in DOMAIN req : permanently_delete_audit(r)
    \/ \E r \in DOMAIN req : empty_trash_select(r)
    \/ \E r \in DOMAIN req : empty_trash_commit(r)
    \/ \E r \in DOMAIN req : empty_trash_audit(r)

SpecLife == InitLife /\ [][NextLife]_vars

----------------------------------------------------------------------------
(* Every state-changing handler, one request at a time *)

InitAudit ==
    /\ users = ChainUsers
    /\ tasks = InitTasks
    /\ roles = InitRoles
    /\ user_roles = {}
    /\ audit_logs = <<>>
    /\ now = 0
    /\ last = NoResponse
    /\ req = NoRequests

NextAudit ==
    \/ \E a \in UserIds, c \in Components, n \in {"User", "Auditor"} :
          create_role(a, c, n, [read |-> "all"])
    \/ \E a \in UserIds, r \in {1, NoSuchId}, p \in PermissionInputs : update_role(a, r, p)
    \/ \E a \in UserIds, r \in {1, NoSuchId} : delete_role(a, r)
    \/ \E a \in UserIds, u \in UserIds, r \in {1, NoSuchId} : assign_role_to_user(a, u, r)
    \/ \E a \in UserIds, u \in UserIds, r \in {1, NoSuchId} : remove_role_from_user(a, u, r)
    \/ \E a \in UserIds, u \in UserIds, m \in UserIds \cup {NULL} :
          update_user_manager(a, u, m)
    \/ \E a \in UserIds, u \in UserIds : delete_user(a, u)
    \/ \E a \in UserIds, t \in TaskIds : delete_task(a, t)
    \/ \E a \in UserIds, ty \in {"user", "task"}, i \in UserIds \cup TaskIds :
          restore_item(a, ty, i)
    \/ \E a \in UserIds, ty \in {"user", "task"}, i \in UserIds \cup TaskIds :
          permanently_delete(a, ty, i)
    \/ \E a \in UserIds : empty_trash(a)

SpecAudit == InitAudit /\ [][NextAudit]_vars

----------------------------------------------------------------------------
(* Trash listing *)

MaxSkip == 2

MaxLimit == 3

TrashItem(type, id, deleted_at) == [type |-> type, id |-> id, deleted_at |-> deleted_at]

(* ORDER BY deleted_at DESC, and items.sort(key = deleted_at, reverse):    *)
(* the items of a set, newest tombstone first.  The order of two items     *)
(* with one timestamp is the database's choice in the first and the order  *)
(* of insertion in the second; the tombstones here are all distinct.       *)
RECURSIVE by_deleted_at_desc(_)
by_deleted_at_desc(items) ==
    IF items = {} THEN <<>>
    ELSE LET newest == CHOOSE x \in items : \A y \in items : y.deleted_at <= x.deleted_at
         IN  <<newest>> \o by_deleted_at_desc(items \ {newest})

(* seq[skip : skip + limit], and OFFSET skip LIMIT limit *)
slice(seq, skip, limit) ==
    SubSeq(seq, skip + 1, IF skip + limit < Len(seq) THEN skip + limit ELSE Len(seq))

(* services/trash.py get_trash_items; item_type NONE is None *)
get_trash_items(us, ts, item_type, skip, limit) ==
    LET user_items ==
            IF item_type \in {NONE, "user"}
            THEN slice(by_deleted_at_desc(
                           {TrashItem("user", i, us[i].deleted_at) : i \in deleted_users(us)}),
                       IF item_type = "user" THEN skip ELSE 0,
                       IF item_type = "user" THEN limit ELSE limit \div 2)
            ELSE <<>>
        task_items ==
            IF item_type \in {NONE, "task"}
            THEN slice(by_deleted_at_desc(
                           {TrashItem("task", t, ts[t].deleted_at) : t \in deleted_tasks(ts)}),
                       IF item_type = "task" THEN skip ELSE 0,
                       IF item_type = "task" THEN limit ELSE limit \div 2)
            ELSE <<>>
    IN  slice(by_deleted_at_desc(SeqToSet(user_items \o task_items)), skip, limit)

(* GET /trash/: the response holds the query parameters, the items and the *)
(* total                                                                   *)
list_trash(actor, item_type, skip, limit) ==
    /\ get_current_admin_user(actor)
    /\ last' = Response("list_trash", "200",
                        <<item_type, skip, limit,
                          get_trash_items(users, tasks, item_type, skip, limit),
                          Len(get_trash_items(users, tasks, item_type, 0, 10000))>>)
    /\ UNCHANGED <<db, req>>

(* the tombstones a database can hold: any of the users but the            *)
(* administrator and any of the tasks, deleted at distinct times           *)
Tombstones ==
    LET records == {<<"user", i>> : i \in UserIds \ {1}} \cup {<<"task", t>> : t \in TaskIds}
        times == 1..Cardinality(records)
    IN  {f \in [records -> times \cup {NULL}] :
            \A x \in records, y \in records : x # y /\ f[x] # NULL => f[x] # f[y]}

InitList ==
    /\ \E f \in Tombstones :
          /\ users = [i \in UserIds |->
                         IF i = 1 THEN InitUsers[i]
                         ELSE User(NULL, f[<<"user", i>>], TRUE, FALSE)]
          /\ tasks = [t \in TaskIds |-> Task(InitTasks[t].user_id, f[<<"task", t>>])]
    /\ roles = InitRoles
    /\ user_roles = {}
    /\ audit_logs = <<>>
    /\ now = MaxUsers + MaxTasks
    /\ last = NoResponse
    /\ req = NoRequests

NextList ==
    \E actor \in UserIds, item_type \in {NONE, "user", "task"},
       skip \in 0..MaxSkip, limit \in 1..MaxLimit :
          list_trash(actor, item_type, skip, limit)

SpecList == InitList /\ [][NextList]_vars

----------------------------------------------------------------------------
(* Ordinary (non-trash) queries, with the default skip = 0 and a limit     *)
(* above the number of rows                                                *)

(* a plausible slip: the deleted_at filter is left out *)
get_tasks_with_deleted(ts, actor) ==
    {t \in DOMAIN ts : ts[t].user_id = actor}

(* GET /tasks/ *)
get_tasks(ts, actor) ==
    {t \in DOMAIN ts : ts[t].user_id = actor /\ ts[t].deleted_at = NULL}

(* GET /users/ *)
get_users(us) ==
    {i \in DOMAIN us : us[i].deleted_at = NULL}

----------------------------------------------------------------------------
(* Soft delete and restore of records that have a manager, subordinates    *)
(* and role assignments                                                    *)

InitTrip ==
    /\ users \in {InitUsers, ChainUsers}
    /\ tasks = InitTasks
    /\ roles = InitRoles
    /\ user_roles \in SUBSET {<<u, 1>> : u \in UserIds \ {1}}
    /\ audit_logs = <<>>
    /\ now = 0
    /\ last = NoResponse
    /\ req = NoRequests

NextTrip ==
    \/ \E a \in UserIds, u \in UserIdInputs : delete_user(a, u)
    \/ \E a \in UserIds, t \in TaskIdInputs : update_task(a, t)
    \/ \E a \in UserIds, t \in TaskIdInputs : delete_task(a, t)
    \/ \E a \in UserIds, ty \in ItemTypes, i \in UserIdInputs \cup TaskIdInputs :
          restore_item(a, ty, i)

SpecTrip == InitTrip /\ [][NextTrip]_vars

----------------------------------------------------------------------------
(* Properties *)

(* C1: starting from an acyclic manager graph, after any sequence of       *)
(* serialized operations (setManager, soft delete, restore, purge,         *)
(* purgeAll) no identity is reachable from itself through manager_id.      *)
C1_ManagerGraphAcyclic == Acyclic(users)

(* a manager change succeeded and left a chain of two reporting levels *)
C1_Witness ==
    /\ last.op = "update_user_manager" /\ last.result = "204"
    /\ audit_logs # <<>>
    /\ \E i \in DOMAIN users :
          /\ users[i].manager_id \in DOMAIN users
          /\ users[users[i].manager_id].manager_id # NULL

(* the scope the decision table reads: the resolved scope of the action *)
ResolvedScope(u, c, a) == get_user_permissions(roles, user_roles, u, c)[a]

Allowed == last.result \in {"True", "200"}

(* C2: allow follows the decision table on the resolved scope: none ->     *)
(* deny; all -> allow; own -> allow for create, otherwise iff the owner is *)
(* the identity; subordinates -> allow for create, otherwise iff the owner *)
(* is the identity or one of its descendants.  With a null owner, create   *)
(* is allowed iff the resolved scope of create is not none.                *)
C2_DecisionTable ==
    \A r \in DOMAIN req :
        (req[r].pc = "done" /\ (req[r].resource_owner_id # NULL \/ req[r].action = "create"))
        => LET u == req[r].user_id
               o == req[r].resource_owner_id
               a == req[r].action
               scope == ResolvedScope(u, req[r].component, a)
           IN  Allowed <=>
                  CASE scope = NONE -> FALSE
                    [] scope = "all" -> TRUE
                    [] scope = "own" -> a = "create" \/ o = u
                    [] scope = "subordinates" ->
                          a = "create" \/ o = u \/ o \in DescendantsOf(users, u)

(* own scope, create on behalf of nobody in particular: allowed although   *)
(* the owner given is another identity                                     *)
C2_Witness ==
    \E r \in DOMAIN req :
        /\ req[r].pc = "done" /\ req[r].action = "create"
        /\ ResolvedScope(req[r].user_id, req[r].component, "create") = "own"
        /\ req[r].resource_owner_id \notin {NULL, req[r].user_id}
        /\ Allowed

Sibling(m, o) ==
    /\ o # m /\ o \in DOMAIN users
    /\ users[m].manager_id # NULL
    /\ users[o].manager_id = users[m].manager_id

Unrelated(m, o) ==
    /\ o # m
    /\ o \notin DescendantsOf(users, m)
    /\ o \notin AncestorsOf(users, m)
    /\ ~Sibling(m, o)

(* C3: for an identity M whose resolved scope for a non-create action is   *)
(* subordinates, allow is true when the owner is M or a descendant of M at *)
(* any depth, and false when the owner is a sibling of M, an ancestor of M *)
(* or unrelated to M.                                                      *)
C3_SubordinatesScope ==
    \A r \in DOMAIN req :
        (/\ req[r].pc = "done" /\ req[r].action # "create"
         /\ req[r].resource_owner_id # NULL
         /\ ResolvedScope(req[r].user_id, req[r].component, req[r].action) = "subordinates")
        => LET m == req[r].user_id
               o == req[r].resource_owner_id
           IN  /\ (o = m \/ o \in DescendantsOf(users, m)) => Allowed
               /\ (Sibling(m, o) \/ o \in AncestorsOf(users, m) \/ Unrelated(m, o))
                     => ~Allowed

(* the owner reports to someone who reports to M, and the check allowed *)
C3_Witness ==
    \E r \in DOMAIN req :
        /\ req[r].pc = "done" /\ req[r].action = "read"
        /\ ResolvedScope(req[r].user_id, req[r].component, "read") = "subordinates"
        /\ req[r].resource_owner_id \in DOMAIN users
        /\ users[req[r].resource_owner_id].manager_id \notin {NULL, req[r].user_id}
        /\ req[r].resource_owner_id \in DescendantsOf(users, req[r].user_id)
        /\ Allowed

(* the order none < own < subordinates < all *)
Rank(scope) ==
    IF scope = "all" THEN 3
    ELSE IF scope = "subordinates" THEN 2
    ELSE IF scope = "own" THEN 1
    ELSE 0

(* the scopes the identity's roles on the component give to the action *)
GrantedScopes(u, c, a) ==
    {roles[r].permissions[a] :
        r \in {x \in DOMAIN roles :
                  /\ <<u, x>> \in user_roles
                  /\ roles[x].component = c
                  /\ a \in DOMAIN roles[x].permissions
                  /\ roles[x].permissions[a] # NONE}}

Broadest(S) ==
    IF S = {} THEN NONE ELSE CHOOSE s \in S : \A t \in S : Rank(s) >= Rank(t)

(* C4: resolve returns for each of the four actions the maximum, under     *)
(* none < own < subordinates < all, of the scopes the identity's assigned  *)
(* roles on that component give to the action; other components' roles    *)
(* and unassigned roles contribute nothing; no role resolves to none.      *)
C4_ResolveIsMaximum ==
    /\ \A u \in UserIds, c \in Components :
          /\ DOMAIN get_user_permissions(roles, user_roles, u, c) = Actions
          /\ \A a \in Actions : ResolvedScope(u, c, a) = Broadest(GrantedScopes(u, c, a))
    /\ last.op = "get_user_permissions"
          => \A a \in Actions :
                last.value[3][a] = Broadest(GrantedScopes(last.value[1], last.value[2], a))

(* the caller holds the roles User and Manager of tasks and resolved read  *)
(* to subordinates                                                         *)
C4_Witness ==
    /\ last.op = "get_user_permissions"
    /\ last.value[2] = "tasks"
    /\ {<<last.value[1], 1>>, <<last.value[1], 2>>} \subseteq user_roles
    /\ roles[1].permissions = InitRoles[1].permissions
    /\ roles[2].permissions = InitRoles[2].permissions
    /\ last.value[3]["read"] = "subordinates"
    /\ last.value[3]["delete"] = "own"

(* C5: resolve is order-independent and idempotent: every order in which   *)
(* the assigned roles are iterated yields the map that was returned, so a  *)
(* second call with unchanged assignments returns the same map.            *)
C5_ResolveOrderIndependent ==
    last.op = "get_user_permissions"
    => \A q \in RowOrders(get_user_roles(roles, user_roles, last.value[1], last.value[2])) :
          effective_permissions(roles, q) = last.value[3]

(* the caller holds two roles of the component that give some action       *)
(* different scopes                                                        *)
C5_Witness ==
    /\ last.op = "get_user_permissions"
    /\ \E r1, r2 \in get_user_roles(roles, user_roles, last.value[1], last.value[2]) :
          \E a \in Actions :
             /\ a \in DOMAIN roles[r1].permissions /\ a \in DOMAIN roles[r2].permissions
             /\ Rank(roles[r1].permissions[a]) > Rank(roles[r2].permissions[a])
             /\ Rank(roles[r2].permissions[a]) > 0

(* C6: assigning one more role to an identity never lowers the resolved    *)
(* scope of any action on any component, and never turns an allow into a   *)
(* deny.                                                                   *)
C6_AssignMonotonic ==
    [][(last'.op = "assign_role_to_user" /\ last'.result = "204") =>
          /\ \E u \in UserIds, r \in DOMAIN roles :
                /\ <<u, r>> \notin user_roles
                /\ user_roles' = user_roles \cup {<<u, r>>}
                /\ \E actor \in UserIds : assign_role_to_user(actor, u, r)
          /\ \A x \in UserIds, c \in Components, a \in Actions :
                /\ Rank(get_user_permissions(roles', user_roles', x, c)[a])
                      >= Rank(get_user_permissions(roles, user_roles, x, c)[a])
                /\ \A o \in UserIdInputs \cup {NULL} :
                      check_permission(users, roles, user_roles, x, c, a, o)
                      => check_permission(users', roles', user_roles', x, c, a, o)]_vars

(* a second role of the same component was just assigned to an identity *)
C6_Witness ==
    /\ last.op = "assign_role_to_user" /\ last.result = "204"
    /\ \E u \in UserIds : \E r1, r2 \in DOMAIN roles :
          /\ r1 # r2 /\ roles[r1].component = roles[r2].component
          /\ {<<u, r1>>, <<u, r2>>} \subseteq user_roles

(* C7: setManager(subject, manager) fails with a cycle error whenever the  *)
(* manager is among the subject's transitive descendants, and then writes  *)
(* nothing.                                                                *)
C7_CycleRejected ==
    [][last'.op = "update_user_manager" =>
          \A u \in UserIds : \A m \in DescendantsOf(users, u) : \A actor \in UserIds :
             update_user_manager(actor, u, m)
             => /\ last'.result = "400 circular dependency"
                /\ users' = users
                /\ audit_logs' = audit_logs]_vars

(* setManager(B, A) then setManager(C, B) succeeded and were audited, the  *)
(* chain stands, and a manager change was refused as circular              *)
C7_Witness ==
    /\ last.op = "update_user_manager" /\ last.result = "400 circular dependency"
    /\ Len(audit_logs) = 2
    /\ \E A, B, C \in DOMAIN users :
          /\ audit_logs[1].record_id = <<B>> /\ audit_logs[1].new_values = <<A>>
          /\ audit_logs[2].record_id = <<C>> /\ audit_logs[2].new_values = <<B>>
          /\ users[B].manager_id = A /\ users[C].manager_id = B
          /\ users[A].manager_id = NULL

Tombstoned(item_type, item_id) ==
    \/ item_type = "user" /\ item_id \in DOMAIN users /\ users[item_id].deleted_at # NULL
    \/ item_type = "task" /\ item_id \in DOMAIN tasks /\ tasks[item_id].deleted_at # NULL

(* C10: restore(type, id) returns true and clears the tombstone exactly    *)
(* when a record of that type with that id is tombstoned, and then appends *)
(* one audit entry; otherwise (live, absent, unknown type) it returns      *)
(* false, changes no record and appends no audit entry.                    *)
C10_Restore ==
    [][last'.op = "restore_item" =>
       \A actor \in UserIds, ty \in ItemTypes, i \in UserIdInputs \cup TaskIdInputs :
          restore_item(actor, ty, i)
          => IF Tombstoned(ty, i)
             THEN /\ last'.result = "True"
                  /\ ~Tombstoned(ty, i)'
                  /\ ty = "user" =>
                        /\ users' = [users EXCEPT ![i].deleted_at = NULL,
                                                  ![i].updated_at = users'[i].updated_at]
                        /\ tasks' = tasks
                  /\ ty = "task" =>
                        /\ tasks' = [tasks EXCEPT ![i].deleted_at = NULL,
                                                  ![i].updated_at = tasks'[i].updated_at]
                        /\ users' = users
                  /\ roles' = roles /\ user_roles' = user_roles
                  /\ Len(audit_logs') = Len(audit_logs) + 1
                  /\ SubSeq(audit_logs', 1, Len(audit_logs)) = audit_logs
                  /\ audit_logs'[Len(audit_logs')].record_id = <<i>>
             ELSE /\ last'.result = "False"
                  /\ UNCHANGED <<users, tasks, roles, user_roles, audit_logs>>]_vars

(* a soft-deleted task was restored: it is live again and the restore is   *)
(* the newest audit entry                                                  *)
C10_Witness ==
    /\ last.op = "restore_item" /\ last.result = "True"
    /\ Len(audit_logs) = 2
    /\ audit_logs[1].action = "delete" /\ audit_logs[1].table_name = "tasks"
    /\ audit_logs[2].action = "update" /\ audit_logs[2].table_name = "tasks"
    /\ audit_logs[2].record_id = audit_logs[1].record_id
    /\ \E t \in DOMAIN tasks : audit_logs[2].record_id = <<t>> /\ tasks[t].deleted_at = NULL

(* C8: in every interleaving of two setManager requests, each doing its    *)
(* descendant check and then its write, the manager graph that results is  *)
(* acyclic.                                                                *)
C8_ConcurrentSetManagerAcyclic ==
    (\A r \in DOMAIN req : req[r].op = "update_user_manager") => Acyclic(users)

(* C9: no task or identity goes from LIVE to GONE directly: every record   *)
(* removed from storage by a step had its tombstone set in the state right *)
(* before that step, also when purge or purgeAll runs next to a restore.   *)
C9_NoLiveToGone ==
    [][/\ \A t \in DOMAIN tasks :
             t \notin DOMAIN tasks' => tasks[t].deleted_at # NULL
       /\ \A u \in DOMAIN users :
             u \notin DOMAIN users' => users[u].deleted_at # NULL]_vars

(* the audit entry of a successful restore or purge of one record *)
TrashEntry(e, words, item_type, item_id) ==
    /\ e.description[1] \in words
    /\ e.description[2] = item_type
    /\ e.record_id = <<item_id>>

(* C11: purge is terminal.  Once purge(type, id) has returned true (its    *)
(* audit entry is in the trail), no later restore or purge of (type, id)   *)
(* returns true (none writes its audit entry) and no record of that type   *)
(* with that id is in storage, tombstoned or live.                         *)
C11_PurgeTerminal ==
    \A k \in DOMAIN audit_logs :
       audit_logs[k].description[1] = "Permanently deleted" =>
          LET item_type == audit_logs[k].description[2]
              item_id == audit_logs[k].record_id[1]
          IN  /\ \A j \in (k + 1)..Len(audit_logs) :
                    ~TrashEntry(audit_logs[j], {"Restored", "Permanently deleted"},
                                item_type, item_id)
              /\ item_type = "user" => item_id \notin DOMAIN users
              /\ item_type = "task" => item_id \notin DOMAIN tasks

(* the restore half of C11 alone: no restore returns true on a purged id *)
C11_NoRestoreAfterPurge ==
    \A k \in DOMAIN audit_logs, j \in DOMAIN audit_logs :
       /\ audit_logs[k].description[1] = "Permanently deleted"
       /\ k < j
       => ~TrashEntry(audit_logs[j], {"Restored"}, audit_logs[k].description[2],
                      audit_logs[k].record_id[1])

(* a successful soft delete or restore: exactly one record of one table    *)
(* changes, in its tombstone (and in updated_at unless stamp_kept) and in  *)
(* nothing else; no role, no assignment and no other record changes; the   *)
(* audit trail grows by one entry.  After the soft delete the record is    *)
(* hidden from the ordinary queries; after the restore its tombstone is    *)
(* null and the ordinary queries return it.                                *)
RoundTripStep(stamp_kept) ==
    (/\ last'.op \in {"delete_user", "delete_task", "restore_item"}
     /\ last'.result \in {"204", "True"})
    => /\ roles' = roles
       /\ user_roles' = user_roles
       /\ SubSeq(audit_logs', 1, Len(audit_logs)) = audit_logs
       /\ Len(audit_logs') = Len(audit_logs) + 1
       /\ \E item_type \in {"user", "task"}, i \in UserIds \cup TaskIds :
             LET table == IF item_type = "user" THEN users ELSE tasks
                 after == IF item_type = "user" THEN users' ELSE tasks'
             IN  /\ i \in DOMAIN table
                 /\ DOMAIN after = DOMAIN table
                 /\ \A k \in DOMAIN table : k # i => after[k] = table[k]
                 /\ item_type = "user" => tasks' = tasks
                 /\ item_type = "task" => users' = users
                 /\ after[i] = [table[i] EXCEPT
                                   !.deleted_at = after[i].deleted_at,
                                   !.updated_at = IF stamp_kept THEN table[i].updated_at
                                                  ELSE after[i].updated_at]
                 /\ IF last'.op = "restore_item"
                    THEN /\ table[i].deleted_at # NULL
                         /\ after[i].deleted_at = NULL
                         /\ item_type = "user" => i \in get_users(users')
                         /\ item_type = "task" => i \in get_tasks(tasks', tasks[i].user_id)
                    ELSE /\ table[i].deleted_at = NULL
                         /\ after[i].deleted_at # NULL
                         /\ item_type = "user" => i \notin get_users(users')
                         /\ item_type = "task" => i \notin get_tasks(tasks', tasks[i].user_id)

(* C12 as stated: softDelete(r) followed by restore(type, r.id) leaves r   *)
(* with every field equal to its value before the soft delete, the         *)
(* tombstone null and r returned by the ordinary queries; only the audit   *)
(* trail has grown.  Step by step: neither the soft delete nor the restore *)
(* changes any field of r but the tombstone.                               *)
C12_RoundTripEveryField == [][RoundTripStep(TRUE)]_vars

(* C12, amended: softDelete(r) followed by restore(type, r.id) leaves r    *)
(* with every field other than updated_at (owner, manager edge, role       *)
(* assignments, is_active, is_admin) equal to its value before the soft    *)
(* delete, the tombstone null and r returned by the ordinary queries;      *)
(* nothing else but the audit trail changes.  updated_at advances.         *)
C12_RoundTrip == [][RoundTripStep(FALSE)]_vars

(* user 2, who has a manager, a subordinate and a role, was soft-deleted   *)
(* and restored: the edges and the assignment are as before and the two    *)
(* steps are the audit trail                                               *)
C12_Witness ==
    /\ last.op = "restore_item" /\ last.result = "True"
    /\ Len(audit_logs) = 2
    /\ audit_logs[1].description = <<"Deleted", "user", 2>>
    /\ audit_logs[2].description = <<"Restored", "user", "from trash", 2>>
    /\ users = [ChainUsers EXCEPT ![2].updated_at = 2]
    /\ <<2, 1>> \in user_roles
    /\ 2 \in get_users(users)

(* C13: a restore and a purge in flight on one tombstoned record: when     *)
(* both have answered, exactly one of them has returned true; if it is the *)
(* restore, the record is stored with a null tombstone and the trail holds *)
(* its restore entry and no purge entry; if it is the purge, the record is *)
(* gone and the trail holds its purge entry and no restore entry.          *)
C13_RestoreXorPurge ==
    \A r1 \in DOMAIN req, r2 \in DOMAIN req :
       (/\ req[r1].op = "restore_item" /\ req[r2].op = "permanently_delete"
        /\ req[r1].pc = "done" /\ req[r2].pc = "done"
        /\ req[r1].item_type = req[r2].item_type
        /\ req[r1].item_id = req[r2].item_id
        /\ \E k \in DOMAIN audit_logs :
              audit_logs[k].description =
                  <<"Deleted", req[r1].item_type, req[r1].item_id>>)
       => LET item_type == req[r1].item_type
              item_id == req[r1].item_id
              table == IF item_type = "user" THEN users ELSE tasks
              restored == \E k \in DOMAIN audit_logs :
                             TrashEntry(audit_logs[k], {"Restored"}, item_type, item_id)
              purged == \E k \in DOMAIN audit_logs :
                           TrashEntry(audit_logs[k], {"Permanently deleted"},
                                      item_type, item_id)
          IN  /\ (req[r1].result = "True") # (req[r2].result = "True")
              /\ req[r1].result = "True" =>
                    /\ item_id \in DOMAIN table
                    /\ table[item_id].deleted_at = NULL
                    /\ restored /\ ~purged
              /\ req[r2].result = "True" =>
                    /\ item_id \notin DOMAIN table
                    /\ purged /\ ~restored

(* the mutation an audit entry reports is in the database *)
Happened(e, us, ts) ==
    LET words == e.description[1]
        id == IF e.record_id = <<>> THEN NULL ELSE e.record_id[1]
        table == IF e.table_name = "users" THEN us ELSE ts
    IN  CASE words = "Deleted" -> id \in DOMAIN table /\ table[id].deleted_at # NULL
          [] words = "Restored" -> id \in DOMAIN table /\ table[id].deleted_at = NULL
          [] words = "Permanently deleted" -> id \notin DOMAIN table
          [] words = "Emptied trash" -> deleted_users(us) = {} /\ deleted_tasks(ts) = {}
          [] words = "Created" -> id \in DOMAIN table
          [] OTHER -> FALSE

(* C14: an audit entry is committed only after the data mutation of its    *)
(* operation has committed: at every step that appends an entry (task or   *)
(* identity soft delete, restore, purge, purge of the whole trash, task    *)
(* creation), the mutation the entry reports is already in the database.   *)
C14_AuditAfterMutation ==
    [][Len(audit_logs') > Len(audit_logs)
       => Happened(audit_logs'[Len(audit_logs')], users, tasks)]_vars

(* the step sets the tombstone of record (item_type, item_id) *)
SetsTombstone(item_type, item_id) ==
    LET table == IF item_type = "user" THEN users ELSE tasks
        after == IF item_type = "user" THEN users' ELSE tasks'
    IN  /\ item_id \in DOMAIN table /\ item_id \in DOMAIN after
        /\ table[item_id].deleted_at = NULL
        /\ after[item_id].deleted_at # NULL

(* the newest entry of the trail is the delete entry of the record and     *)
(* holds a snapshot of the record                                          *)
SnapshotRecorded(item_type, item_id) ==
    /\ audit_logs # <<>>
    /\ LET e == audit_logs[Len(audit_logs)]
       IN  /\ e.action = "delete"
           /\ e.table_name = table_of(item_type)
           /\ e.record_id = <<item_id>>
           /\ e.old_values # <<>>

(* C15: every soft delete, of a task or of an identity, is preceded by an  *)
(* audit entry for that record that holds a non-null before snapshot: the  *)
(* entry is in the trail before the tombstone is set.                      *)
C15_SnapshotBeforeTombstone ==
    [][\A item_type \in {"user", "task"}, item_id \in UserIds \cup TaskIds :
          SetsTombstone(item_type, item_id) => SnapshotRecorded(item_type, item_id)]_vars

(* the task half of C15, which delete_task meets *)
C15_TaskSnapshotBeforeTombstone ==
    [][\A item_id \in TaskIds :
          SetsTombstone("task", item_id) => SnapshotRecorded("task", item_id)]_vars

(* C16: purge(type, id) commits its audit entry no later than the commit   *)
(* that removes the record: in the state right after the removal the       *)
(* newest entry of the trail is the purge entry of that record, so no      *)
(* state shows a purged record without its purge entry.                    *)
C16_PurgeAuditedWhenFreed ==
    [][\A r \in DOMAIN req, item_id \in UserIds \cup TaskIds :
          LET table == IF req[r].item_type = "user" THEN users ELSE tasks
              after == IF req[r].item_type = "user" THEN users' ELSE tasks'
          IN  (/\ req[r].op = "permanently_delete"
               /\ req[r].item_id = item_id
               /\ item_id \in DOMAIN table
               /\ item_id \notin DOMAIN after)
              => /\ audit_logs' # <<>>
                 /\ TrashEntry(audit_logs'[Len(audit_logs')], {"Permanently deleted"},
                               req[r].item_type, item_id)]_vars

(* C17: purgeAll removes every record that is tombstoned when it runs and  *)
(* no live record, returns the numbers of tombstoned identities and        *)
(* tombstoned tasks it removed, and appends exactly one audit entry, with  *)
(* a null record id, that carries those two counts.                        *)
C17_PurgeAll ==
    [][(last'.op = "empty_trash" /\ \E actor \in UserIds : empty_trash(actor))
       => LET gone_users == deleted_users(users)
              gone_tasks == deleted_tasks(tasks)
              counts == <<Cardinality(gone_users), Cardinality(gone_tasks)>>
          IN  /\ DOMAIN users' = (DOMAIN users) \ gone_users
              /\ DOMAIN tasks' = (DOMAIN tasks) \ gone_tasks
              /\ last'.value = counts
              /\ Len(audit_logs') = Len(audit_logs) + 1
              /\ SubSeq(audit_logs', 1, Len(audit_logs)) = audit_logs
              /\ audit_logs'[Len(audit_logs')].record_id = <<>>
              /\ audit_logs'[Len(audit_logs')].description
                    = <<"Emptied trash">> \o counts]_vars

(* C17 for the runs of purgeAll that are not refused by the database *)
C17_PurgeAllUnlessRefused ==
    [][(/\ last'.op = "empty_trash"
        /\ last'.result # "IntegrityError"
        /\ \E actor \in UserIds : empty_trash(actor))
       => LET gone_users == deleted_users(users)
              gone_tasks == deleted_tasks(tasks)
              counts == <<Cardinality(gone_users), Cardinality(gone_tasks)>>
          IN  /\ DOMAIN users' = (DOMAIN users) \ gone_users
              /\ DOMAIN tasks' = (DOMAIN tasks) \ gone_tasks
              /\ last'.value = counts
              /\ Len(audit_logs') = Len(audit_logs) + 1
              /\ SubSeq(audit_logs', 1, Len(audit_logs)) = audit_logs
              /\ audit_logs'[Len(audit_logs')].record_id = <<>>
              /\ audit_logs'[Len(audit_logs')].description
                    = <<"Emptied trash">> \o counts]_vars

(* every tombstoned identity and task, merged, newest tombstone first *)
MergedTrash ==
    by_deleted_at_desc(
        {TrashItem("user", i, users[i].deleted_at) : i \in deleted_users(users)}
        \cup {TrashItem("task", t, tasks[t].deleted_at) : t \in deleted_tasks(tasks)})

(* C18: list(null, skip, limit) returns exactly the entries at positions   *)
(* skip .. skip + limit - 1 of the sequence of all tombstoned identities   *)
(* and tasks merged and sorted by tombstone timestamp descending, for      *)
(* every distribution of the tombstones between the two types.             *)
C18_PageOfMergedTrash ==
    (last.op = "list_trash" /\ last.value[1] = NONE)
    => last.value[4] = slice(MergedTrash, last.value[2], last.value[3])

(* C19: the audit trail is append-only: no step (a purge of the record an  *)
(* entry describes, a purge of the identity that acted, a role deletion    *)
(* and a purge of the whole trash included) changes or removes an entry;   *)
(* the trail after the step holds every entry of the trail before it,      *)
(* unchanged and in its place.                                             *)
C19_AppendOnly ==
    [][/\ Len(audit_logs') >= Len(audit_logs)
       /\ SubSeq(audit_logs', 1, Len(audit_logs)) = audit_logs]_vars

(* the soft delete of task 1 is still the first entry of the trail after   *)
(* the task was purged                                                     *)
C19_Witness ==
    /\ Len(audit_logs) = 2
    /\ audit_logs[1].table_name = "tasks"
    /\ audit_logs[1].record_id = <<1>>
    /\ audit_logs[1].old_values = task_old_values
    /\ audit_logs[2].action = "delete"
    /\ 1 \notin DOMAIN tasks

(* the entry names the actor, the table and the record *)
Named(e, actor, table_name, record_id) ==
    /\ e.user_id = actor
    /\ e.table_name = table_name
    /\ e.record_id = record_id

(* C20: every successful operation that changes the stored state (role     *)
(* create, update, delete, role assignment and removal, a manager change   *)
(* that alters the edge, soft delete of a task or an identity, restore,    *)
(* purge, purge of the whole trash) appends exactly one audit entry, which *)
(* names the actor, the affected table and the affected record id; the     *)
(* record id is null for the purge of the whole trash and only for it.     *)
C20_OneEntryPerChange ==
    [][<<users, tasks, roles, user_roles>>' # <<users, tasks, roles, user_roles>>
       => /\ Len(audit_logs') = Len(audit_logs) + 1
          /\ SubSeq(audit_logs', 1, Len(audit_logs)) = audit_logs
          /\ LET e == audit_logs'[Len(audit_logs')]
             IN  /\ (e.record_id = <<>>) <=> (last'.op = "empty_trash")
                 /\ \A a \in UserIds :
                       /\ \A c \in Components, n \in {"User", "Auditor"} :
                             create_role(a, c, n, [read |-> "all"])
                             => Named(e, a, "roles", <<next_rowid(roles)>>)
                       /\ \A r \in DOMAIN roles :
                             /\ (\E p \in PermissionInputs : update_role(a, r, p))
                                => Named(e, a, "roles", <<r>>)
                             /\ delete_role(a, r) => Named(e, a, "roles", <<r>>)
                             /\ \A u \in UserIds :
                                   /\ assign_role_to_user(a, u, r)
                                      => Named(e, a, "user_roles", <<u, r>>)
                                   /\ remove_role_from_user(a, u, r)
                                      => Named(e, a, "user_roles", <<u, r>>)
                       /\ \A u \in UserIds :
                             /\ (\E m \in UserIds \cup {NULL} : update_user_manager(a, u, m))
                                => Named(e, a, "users", <<u>>)
                             /\ delete_user(a, u) => Named(e, a, "users", <<u>>)
                       /\ \A t \in TaskIds : delete_task(a, t) => Named(e, a, "tasks", <<t>>)
                       /\ \A ty \in {"user", "task"}, i \in UserIds \cup TaskIds :
                             /\ restore_item(a, ty, i) => Named(e, a, table_of(ty), <<i>>)
                             /\ permanently_delete(a, ty, i)
                                => Named(e, a, table_of(ty), <<i>>)
                       /\ empty_trash(a) => Named(e, a, "trash", <<>>)]_vars

(* the trash held task 1 and was purged as a whole: the newest entry has a *)
(* null record id and the counts, the entry before it names the task       *)
C20_Witness ==
    /\ last = Response("empty_trash", "True", <<0, 1>>)
    /\ Len(audit_logs) = 2
    /\ Named(audit_logs[1], 2, "tasks", <<1>>)
    /\ Named(audit_logs[2], 1, "trash", <<>>)
    /\ tasks = <<>>

----------------------------------------------------------------------------
(* References after deletions: the serialized role, assignment, hierarchy  *)
(* and purge handlers, started from every mix of tombstoned users, held    *)
(* roles, and with or without the task that user 2 owns                    *)

AssignmentInputs == {<<2, 1>>, <<3, 2>>}

InitRefs ==
    /\ \E gone \in SUBSET (UserIds \ {1}) :
          users = [i \in UserIds |->
                      User(ChainUsers[i].manager_id, IF i \in gone THEN i ELSE NULL,
                           TRUE, i = 1)]
    /\ tasks \in {InitTasks, Without(InitTasks, TaskIds)}
    /\ roles = InitRoles
    /\ user_roles \in SUBSET AssignmentInputs
    /\ audit_logs = <<>>
    /\ now = MaxUsers
    /\ last = NoResponse
    /\ req = NoRequests

NextRefs ==
    \/ \E a \in UserIds, r \in {1, NoSuchId} : delete_role(a, r)
    \/ \E a \in UserIds, p \in AssignmentInputs : assign_role_to_user(a, p[1], p[2])
    \/ \E a \in UserIds, p \in AssignmentInputs : remove_role_from_user(a, p[1], p[2])
    \/ \E a \in UserIds, u \in {2, 3, NoSuchId}, m \in {2, 3, NoSuchId, NULL} :
          update_user_manager(a, u, m)
    \/ \E a \in UserIds, ty \in {"user", "task"}, i \in {1, 2, 3} :
          permanently_delete(a, ty, i)
    \/ \E a \in UserIds : empty_trash(a)

SpecRefs == InitRefs /\ [][NextRefs]_vars

(* C22: no dangling reference after any sequence of role deletions,        *)
(* purges, purgeAll and assignment operations: every assignment names a    *)
(* stored role and a stored user, and every manager_id that is not null    *)
(* names a stored user.                                                    *)
C22_NoDanglingReference ==
    /\ \A p \in user_roles : p[1] \in DOMAIN users /\ p[2] \in DOMAIN roles
    /\ \A i \in DOMAIN users :
          users[i].manager_id # NULL => users[i].manager_id \in DOMAIN users

(* user 2 was given role 1 and then purged while managing user 3 *)
C22_Witness ==
    /\ last.op \in {"permanently_delete", "empty_trash"}
    /\ last.result = "True"
    /\ 2 \notin DOMAIN users
    /\ 3 \in DOMAIN users
    /\ users[3].manager_id = NULL
    /\ users[3].updated_at = now
    /\ Len(audit_logs) = MaxAudit
    /\ audit_logs[1].action = "create"
    /\ audit_logs[1].record_id = <<2, 1>>


----------------------------------------------------------------------------
(* Two POST /admin/rbac/roles requests in flight: the check for an         *)
(* existing role, the INSERT with its commit, and the audit entry are      *)
(* separate awaits                                                         *)

RoleRequest(actor, component, name, permissions) ==
    [op |-> "create_role", pc |-> "new", actor |-> actor, component |-> component,
     name |-> name, permissions |-> permissions, role_id |-> NULL, result |-> ""]

(* select(Role).where(component == ..., name == ...) finds a row *)
existing(rs, component, name) ==
    \E i \in DOMAIN rs : rs[i].component = component /\ rs[i].name = name

create_role_select(r) ==
    /\ Starts(r, "create_role")
    /\ get_current_admin_user(req[r].actor)
    /\ IF existing(roles, req[r].component, req[r].name)
       THEN Finish(r, "400 already exists")
       ELSE Goto(r, "commit")
    /\ UNCHANGED <<db, last>>

(* a plausible slip: the table has no uix_role_component_name, so the      *)
(* INSERT of a second row for the pair goes through                        *)
create_role_commit_unconstrained(r) ==
    /\ At(r, "create_role", "commit")
    /\ LET id == next_rowid(roles)
       IN  /\ roles' = [i \in DOMAIN roles \cup {id} |->
                           IF i = id
                           THEN Role(req[r].component, req[r].name, req[r].permissions)
                           ELSE roles[i]]
           /\ req' = [req EXCEPT ![r].pc = "audit", ![r].role_id = id]
    /\ UNCHANGED <<users, tasks, user_roles, audit_logs, now, last>>

(* db.add(role); commit: the INSERT is refused by the unique constraint on *)
(* (component, name) when a row for the pair was committed meanwhile       *)
create_role_commit(r) ==
    /\ At(r, "create_role", "commit")
    /\ IF existing(roles, req[r].component, req[r].name)
       THEN /\ Finish(r, "IntegrityError")
            /\ UNCHANGED roles
       ELSE LET id == next_rowid(roles)
            IN  /\ roles' = [i \in DOMAIN roles \cup {id} |->
                                IF i = id
                                THEN Role(req[r].component, req[r].name,
                                          req[r].permissions)
                                ELSE roles[i]]
                /\ req' = [req EXCEPT ![r].pc = "audit", ![r].role_id = id]
    /\ UNCHANGED <<users, tasks, user_roles, audit_logs, now, last>>

create_role_audit(r) ==
    /\ At(r, "create_role", "audit")
    /\ audit_logs' = create_audit_log(audit_logs,
           AuditLog("create", "roles", <<req[r].role_id>>, req[r].actor, <<>>, <<>>,
                    <<"Created role", req[r].component, req[r].name>>))
    /\ Finish(r, "201")
    /\ UNCHANGED <<users, tasks, roles, user_roles, now, last>>

RoleRequests ==
    {RoleRequest(a, c, n, p) :
        a \in {i \in UserIds : InitUsers[i].is_admin}, c \in Components,
        n \in {"User", "Auditor"}, p \in {[read |-> "all"], [read |-> "own"]}}

InitCreate ==
    /\ users = InitUsers
    /\ tasks = InitTasks
    /\ roles = InitRoles
    /\ user_roles = {}
    /\ audit_logs = <<>>
    /\ now = 0
    /\ last = NoResponse
    /\ \E q1 \in RoleRequests, q2 \in RoleRequests : req = <<q1, q2>>

NextCreate ==
    \/ \E r \in DOMAIN req : create_role_select(r)
    \/ \E r \in DOMAIN req : create_role_commit(r)
    \/ \E r \in DOMAIN req : create_role_audit(r)

SpecCreate == InitCreate /\ [][NextCreate]_vars

RolesUnique(rs) ==
    \A i \in DOMAIN rs, j \in DOMAIN rs :
        rs[i].component = rs[j].component /\ rs[i].name = rs[j].name => i = j

C24_FailedSetManagerWritesNothing ==
    [][last'.op = "update_user_manager"
       => \A a \in {i \in DOMAIN users : users[i].is_admin},
             u \in {2, 3, NoSuchId}, m \in {2, 3, NoSuchId, NULL} :
             update_user_manager(a, u, m)
             => LET missing == u \notin DOMAIN users \/ (m # NULL /\ m \notin DOMAIN users)
                    self == m = u
                    cycle == m # NULL /\ m \in DescendantsOf(users, u)
                IN  /\ (missing \/ self \/ cycle) <=> last'.result # "204"
                    /\ last'.result # "204"
                       => /\ users' = users
                          /\ audit_logs' = audit_logs
                    /\ last'.result \in {"404 User not found", "404 Manager not found"}
                       <=> missing /\ (self => u \notin DOMAIN users)
                    /\ last'.result = "400 own manager" <=> self /\ u \in DOMAIN users
                    /\ last'.result = "400 circular dependency"
                       <=> cycle /\ ~self /\ ~missing]_vars

(* a request was refused for a cycle after two others had moved user 2     *)
(* under user 3; the graph and the log are those the two left              *)
C24_Witness ==
    /\ last.op = "update_user_manager"
    /\ last.result = "400 circular dependency"
    /\ Len(audit_logs) = 2
    /\ audit_logs[1].table_name = "users"
    /\ audit_logs[1].action = "update"
    /\ 2 \in DOMAIN users
    /\ users[2].manager_id = 3


(* C25: a component-level check - check_permission with no resource owner, *)
(* as require_permission makes it - for an action other than create is     *)
(* true exactly when the scope resolved for the action is "all", that is   *)
(* when a held role of the component gives the action scope "all"; with    *)
(* resolved scope "own" or "subordinates" it is false and the request is   *)
(* answered 403.                                                           *)
C25_ComponentLevelCheck ==
    [][\A r \in DOMAIN req :
          permission_checker(r) /\ req[r].action # "create"
          => LET held == get_user_roles(roles, user_roles, req[r].user_id, req[r].component)
                 permissions == get_user_permissions(roles, user_roles, req[r].user_id,
                                                     req[r].component)
                 allowed == check_permission(users, roles, user_roles, req[r].user_id,
                                             req[r].component, req[r].action, NULL)
             IN  /\ allowed <=> \E i \in held :
                                   /\ req[r].action \in DOMAIN roles[i].permissions
                                   /\ roles[i].permissions[req[r].action] = "all"
                 /\ allowed <=> last'.result = "200"
                 /\ (/\ req[r].action \in DOMAIN permissions
                     /\ permissions[req[r].action] \in {"own", "subordinates"})
                    => last'.result = "403"]_vars

(* a user whose widest scope for update is "subordinates" was refused      *)
C25_Witness ==
    /\ last.op = "permission_checker"
    /\ last.result = "403"
    /\ req[1].action = "update"
    /\ LET permissions == get_user_permissions(roles, user_roles, req[1].user_id,
                                               req[1].component)
       IN  /\ "update" \in DOMAIN permissions
           /\ permissions["update"] = "subordinates"


----------------------------------------------------------------------------
(* The hierarchy traversals, one pass of the while loop per step, on every *)
(* manager graph over the users: cycles and self-loops included            *)

SubordinatesRequest(manager_id, include_self) ==
    [op |-> "get_all_subordinate_ids", pc |-> "new", manager_id |-> manager_id,
     include_self |-> include_self,
     ids |-> IF include_self THEN <<manager_id>> ELSE <<>>,
     to_process |-> <<manager_id>>, visited |-> {}, visits |-> 0, result |-> ""]

HierarchyRequest(manager_id, subordinate_id) ==
    [op |-> "is_in_hierarchy", pc |-> "new", manager_id |-> manager_id,
     subordinate_id |-> subordinate_id, current_id |-> subordinate_id,
     found |-> FALSE, visited |-> {}, visits |-> 0, result |-> ""]

ChainRequest(user_id) ==
    [op |-> "get_user_manager_chain", pc |-> "new", user_id |-> user_id,
     current_id |-> user_id, chain |-> <<>>, visited |-> {}, visits |-> 0,
     result |-> ""]

Running(r, op) == req[r].op = op /\ req[r].pc \in {"new", "loop"}

Return(r) == req' = [req EXCEPT ![r].pc = "done", ![r].result = "returned"]

(* while to_process: pop(0); skip a visited id; else query the direct      *)
(* reports and extend ids and to_process with them                         *)
get_all_subordinate_ids_step(r) ==
    /\ Running(r, "get_all_subordinate_ids")
    /\ IF req[r].to_process = <<>>
       THEN Return(r)
       ELSE LET current_id == Head(req[r].to_process)
                rest == Tail(req[r].to_process)
            IN  IF current_id \in req[r].visited
                THEN req' = [req EXCEPT ![r].pc = "loop", ![r].to_process = rest]
                ELSE LET direct == direct_subordinates(users, current_id)
                     IN  req' = [req EXCEPT ![r].pc = "loop",
                                            ![r].visited = @ \cup {current_id},
                                            ![r].visits = @ + 1,
                                            ![r].ids = @ \o direct,
                                            ![r].to_process = rest \o direct]
    /\ UNCHANGED <<db, last>>

(* a plausible slip: the walk up has no visited test *)
is_in_hierarchy_step_unguarded(r) ==
    /\ Running(r, "is_in_hierarchy")
    /\ IF req[r].pc = "new" /\ req[r].manager_id = req[r].subordinate_id
       THEN req' = [req EXCEPT ![r].pc = "done", ![r].result = "returned",
                               ![r].found = TRUE]
       ELSE IF req[r].current_id = NULL
       THEN Return(r)
       ELSE LET current_manager == manager_of(users, req[r].current_id)
            IN  IF current_manager = req[r].manager_id
                THEN req' = [req EXCEPT ![r].pc = "done", ![r].result = "returned",
                                        ![r].visited = @ \cup {req[r].current_id},
                                        ![r].visits = @ + 1,
                                        ![r].found = TRUE]
                ELSE req' = [req EXCEPT ![r].pc = "loop",
                                        ![r].visited = @ \cup {req[r].current_id},
                                        ![r].visits = @ + 1,
                                        ![r].current_id = current_manager]
    /\ UNCHANGED <<db, last>>

(* a plausible slip: only the direct manager is compared, the walk does    *)
(* not climb                                                               *)
is_in_hierarchy_step_direct_only(r) ==
    /\ Running(r, "is_in_hierarchy")
    /\ IF req[r].manager_id = req[r].subordinate_id
       THEN req' = [req EXCEPT ![r].pc = "done", ![r].result = "returned",
                               ![r].found = TRUE]
       ELSE req' = [req EXCEPT ![r].pc = "done", ![r].result = "returned",
                               ![r].visited = {req[r].current_id},
                               ![r].visits = 1,
                               ![r].found = manager_of(users, req[r].current_id)
                                            = req[r].manager_id]
    /\ UNCHANGED <<db, last>>

(* True at once for manager_id == subordinate_id; else while current_id:   *)
(* stop at a visited id, query the manager of current_id, return True if   *)
(* it is manager_id, else climb                                            *)
is_in_hierarchy_step(r) ==
    /\ Running(r, "is_in_hierarchy")
    /\ IF req[r].pc = "new" /\ req[r].manager_id = req[r].subordinate_id
       THEN req' = [req EXCEPT ![r].pc = "done", ![r].result = "returned",
                               ![r].found = TRUE]
       ELSE IF req[r].current_id = NULL \/ req[r].current_id \in req[r].visited
       THEN Return(r)
       ELSE LET current_manager == manager_of(users, req[r].current_id)
            IN  IF current_manager = req[r].manager_id
                THEN req' = [req EXCEPT ![r].pc = "done", ![r].result = "returned",
                                        ![r].visited = @ \cup {req[r].current_id},
                                        ![r].visits = @ + 1,
                                        ![r].found = TRUE]
                ELSE req' = [req EXCEPT ![r].pc = "loop",
                                        ![r].visited = @ \cup {req[r].current_id},
                                        ![r].visits = @ + 1,
                                        ![r].current_id = current_manager]
    /\ UNCHANGED <<db, last>>

(* while current_id: stop at a visited id, at a missing user, at a user    *)
(* without manager and at a missing manager; else append the manager and   *)
(* climb                                                                   *)
get_user_manager_chain_step(r) ==
    /\ Running(r, "get_user_manager_chain")
    /\ IF req[r].current_id = NULL \/ req[r].current_id \in req[r].visited
       THEN Return(r)
       ELSE LET manager_id == manager_of(users, req[r].current_id)
            IN  IF manager_id = NULL \/ manager_id \notin DOMAIN users
                THEN req' = [req EXCEPT ![r].pc = "done", ![r].result = "returned",
                                        ![r].visited = @ \cup {req[r].current_id},
                                        ![r].visits = @ + 1]
                ELSE req' = [req EXCEPT ![r].pc = "loop",
                                        ![r].visited = @ \cup {req[r].current_id},
                                        ![r].visits = @ + 1,
                                        ![r].chain = Append(@, manager_id),
                                        ![r].current_id = manager_id]
    /\ UNCHANGED <<db, last>>

(* every assignment of managers, a missing manager row (NoSuchId) too *)
AllGraphs == [UserIds -> UserIdInputs \cup {NULL}]

WalkRequests ==
    {SubordinatesRequest(m, s) : m \in UserIdInputs, s \in BOOLEAN}
    \cup {HierarchyRequest(m, s) : m \in UserIdInputs, s \in UserIdInputs}
    \cup {ChainRequest(u) : u \in UserIdInputs}

InitWalk ==
    /\ \E g \in AllGraphs : users = [i \in UserIds |-> User(g[i], NULL, TRUE, i = 1)]
    /\ tasks = InitTasks
    /\ roles = InitRoles
    /\ user_roles = {}
    /\ audit_logs = <<>>
    /\ now = 0
    /\ last = NoResponse
    /\ \E q \in WalkRequests : req = <<q>>

NextWalk ==
    \/ \E r \in DOMAIN req : get_all_subordinate_ids_step(r)
    \/ \E r \in DOMAIN req : is_in_hierarchy_step(r)
    \/ \E r \in DOMAIN req : get_user_manager_chain_step(r)

SpecWalk == InitWalk /\ [][NextWalk]_vars

(* the loop of a request is run by one coroutine, which goes on until it   *)
(* returns                                                                 *)
SpecWalkFair == SpecWalk /\ WF_vars(NextWalk)

(* C26: every hierarchy traversal terminates on every graph, cyclic ones   *)
(* and self-loops included: get_all_subordinate_ids, is_in_hierarchy and   *)
(* get_user_manager_chain query each id at most once - the number of       *)
(* passes that query is the size of the visited set, at most the users     *)
(* and the id given - and each of them returns.                            *)
C26_TraversalsTerminate ==
    /\ [](\A r \in DOMAIN req :
             /\ req[r].visits = Cardinality(req[r].visited)
             /\ req[r].visits <= MaxUsers + 1)
    /\ <>(\A r \in DOMAIN req : req[r].pc = "done")

(* the walk up from user 1 returned after it met user 1 again on a cycle   *)
(* through all the users                                                   *)
C26_Witness ==
    /\ req[1].op = "is_in_hierarchy"
    /\ req[1].pc = "done"
    /\ req[1].manager_id = NoSuchId
    /\ req[1].subordinate_id = 1
    /\ req[1].current_id = 1
    /\ req[1].visited = UserIds
    /\ ~req[1].found


(* C27: get_all_subordinate_ids returns the full transitive closure of the *)
(* reports-to edge: on every manager graph the ids returned are exactly    *)
(* the users that have manager_id as a direct or transitive manager, each  *)
(* listed once, and manager_id itself is listed only with include_self.    *)
C27_DescendantsClosure ==
    \A r \in DOMAIN req :
        req[r].op = "get_all_subordinate_ids" /\ req[r].pc = "done"
        => LET ids == req[r].ids
               m == req[r].manager_id
           IN  /\ SeqToSet(ids) \ {m} = DescendantsOf(users, m) \ {m}
               /\ \A i \in DOMAIN ids, j \in DOMAIN ids : ids[i] = ids[j] => i = j
               /\ req[r].include_self => m \in SeqToSet(ids)
               /\ m \in SeqToSet(ids) => req[r].include_self

(* the same on the graphs without a cycle *)
C27_ClosureOnAcyclic ==
    Acyclic(users) => C27_DescendantsClosure


(* every stored task has an owner, and the owner is a stored user *)
TaskOwnersStored ==
    \A t \in DOMAIN tasks :
        tasks[t].user_id # NULL /\ tasks[t].user_id \in DOMAIN users

(* C28: every stored task is owned by exactly one stored user in every     *)
(* reachable state - after any sequence of task creation, soft delete,     *)
(* restore, purge and purgeAll each task's user_id is not null and names   *)
(* a stored user - and the purge of a tombstoned user, one that still owns *)
(* tasks included, completes with a boolean result rather than failing.    *)
C28_TaskOwnedByStoredUser ==
    /\ TaskOwnersStored
    /\ \A r \in DOMAIN req :
          (/\ req[r].op = "permanently_delete"
           /\ req[r].item_type = "user"
           /\ req[r].pc = "done")
          => req[r].result \in {"True", "False"}


----------------------------------------------------------------------------
(* Who may act: users are soft-deleted, restored, deactivated and          *)
(* reactivated by an administrator while every user keeps sending          *)
(* requests with the token it was given; requests serialized               *)

(* PUT /admin/rbac/users/{user_id} with {"is_active": ...} *)
update_user(actor, user_id, is_active) ==
    /\ get_current_admin_user(actor)
    /\ IF ~(user_id \in DOMAIN users /\ users[user_id].deleted_at = NULL)
       THEN /\ Respond("update_user", "404 User not found")
            /\ UNCHANGED <<db, req>>
       ELSE /\ AuditRoom
            /\ IF users[user_id].is_active # is_active
               THEN /\ now' = now + 1
                    /\ users' = [users EXCEPT ![user_id].is_active = is_active,
                                              ![user_id].updated_at = now + 1]
               ELSE UNCHANGED <<users, now>>
            /\ audit_logs' = create_audit_log(audit_logs,
                   AuditLog("update", "users", <<user_id>>, actor,
                            <<users[user_id].is_active>>, <<is_active>>,
                            <<"Updated", "user", user_id>>))
            /\ Respond("update_user", "200")
            /\ UNCHANGED <<tasks, roles, user_roles, req>>

(* GET /tasks/: the caller's live tasks *)
get_tasks_endpoint(actor) ==
    /\ get_current_active_user(actor)
    /\ last' = Response("get_tasks", "200", SortedSeq(get_tasks(tasks, actor)))
    /\ UNCHANGED <<db, req>>

(* POST /auth/refresh: the refresh token is decoded and a new pair of     *)
(* tokens is made for its sub; the users table is not read               *)
refresh_token(actor) ==
    /\ actor \in UserIds
    /\ Respond("refresh_token", "200")
    /\ UNCHANGED <<db, req>>

(* user MaxUsers may have been made an administrator *)
InitAuth ==
    /\ users \in {InitUsers, [InitUsers EXCEPT ![MaxUsers].is_admin = TRUE]}
    /\ tasks = InitTasks
    /\ roles = InitRoles
    /\ user_roles = {}
    /\ audit_logs = <<>>
    /\ now = 0
    /\ last = NoResponse
    /\ req = NoRequests

NextAuth ==
    \/ \E a \in UserIds, u \in UserIds : delete_user(a, u)
    \/ \E a \in UserIds, u \in UserIds, b \in BOOLEAN : update_user(a, u, b)
    \/ \E a \in UserIds, ty \in {"user", "task"}, i \in UserIds : restore_item(a, ty, i)
    \/ \E a \in UserIds, t \in TaskIds : update_task(a, t)
    \/ \E a \in UserIds, t \in TaskIds : delete_task(a, t)
    \/ \E a \in UserIds : get_tasks_endpoint(a)
    \/ \E a \in UserIds : refresh_token(a)

SpecAuth == InitAuth /\ [][NextAuth]_vars

(* the user is stored, not tombstoned and active *)
MayAct(a) ==
    a \in DOMAIN users /\ users[a].deleted_at = NULL /\ users[a].is_active

(* the step is a request of user a, authenticated with a's access token   *)
(* and answered by a handler                                               *)
RequestOf(a) ==
    \/ \E u \in UserIds : delete_user(a, u)
    \/ \E u \in UserIds, b \in BOOLEAN : update_user(a, u, b)
    \/ \E ty \in {"user", "task"}, i \in UserIds : restore_item(a, ty, i)
    \/ \E t \in TaskIds : update_task(a, t)
    \/ \E t \in TaskIds : delete_task(a, t)
    \/ get_tasks_endpoint(a)

C29_DirectionsAgree ==
    Acyclic(users)
    => \A r \in DOMAIN req :
          /\ (req[r].op = "is_in_hierarchy" /\ req[r].pc = "done")
             => (req[r].found
                 <=> req[r].subordinate_id
                        \in SeqToSet(get_all_subordinate_ids(users, req[r].manager_id, TRUE)))
          /\ (/\ req[r].op = "get_all_subordinate_ids"
              /\ req[r].pc = "done"
              /\ req[r].include_self)
             => \A s \in UserIdInputs :
                   s \in SeqToSet(req[r].ids)
                   <=> is_in_hierarchy(users, req[r].manager_id, s)

(* user 3 reports to user 2, who reports to user 1: the walk up from 3     *)
(* found 1 at the second step                                              *)
C29_Witness ==
    /\ Acyclic(users)
    /\ users[3].manager_id = 2
    /\ users[2].manager_id = 1
    /\ req[1].op = "is_in_hierarchy"
    /\ req[1].pc = "done"
    /\ req[1].manager_id = 1
    /\ req[1].subordinate_id = 3
    /\ req[1].visited = {2, 3}
    /\ req[1].found

====
